---------------------------- MODULE Spec2Model ----------------------------
(***************************************************************************)
(* Authoritative DNS server (go/dns-server): wire codec (parser, builder), *)
(* zone store, zone selection and the concurrent UDP query handler.        *)
(*                                                                         *)
(* Strings and byte slices are sequences of byte values (0..255); Go's     *)
(* 0-based index i is position i+1 of the sequence.  The empty sequence     *)
(* stands for the empty string, a nil slice and a nil net.IP alike.        *)
(* Names are restricted to ASCII bytes, on which strings.ToLower is the    *)
(* byte-wise map modelled here.                                            *)
(***************************************************************************)
EXTENDS Integers, Sequences, FiniteSets, TLC

VARIABLES
    pdata, pres, ppc,                       \* parser run: datagram, Parse result, position
    cq, cmsg, crecs, ccall, cresp, cback, cpc,     \* codec round trip: query bytes, parsed query, answer records, Builder call, response bytes, reparsed response, position
    zName, zRecords, zSOA, zAdded, zOut,    \* zone store: Zone.Name, Zone.Records, Zone.SOA, the records added so far (history), result of the last read operation
    fzones, fOut,                           \* zone selection: Server.zones (names), result of the last findZone
    szones, hpc, hdata, hquery, hzone, hrecords, hcall, hresp, hsent,   \* server: zones, and per handler position, datagram, parsed query, zone, records, Builder call, length of the response slice, datagrams sent
    bArr, bLen,                             \* the shared Builder: backing array of b.data and len(b.data)
    queries, answers, nxdomain, errors,     \* the server's counters
    tin, tout, tpc,                         \* duration parsing: token, parseTTL result, position
    lfile, lres, lpc,                       \* zone-file loading: lines of the file, LoadZoneFile result, position
    sdAddrs, sdMain, sdConn, sdLoop, sdCtx, sdSig, sdCount   \* start and shutdown: families with a listen address, position of main in Start, s.udpConn4/6, position of each receive loop, ctx cancelled, position of the signal goroutine, datagrams dispatched by each loop

vars == << pdata, pres, ppc, cq, cmsg, crecs, ccall, cresp, cback, cpc,
           zName, zRecords, zSOA, zAdded, zOut, fzones, fOut,
           szones, hpc, hdata, hquery, hzone, hrecords, hcall, hresp, hsent,
           bArr, bLen, queries, answers, nxdomain, errors,
           tin, tout, tpc, lfile, lres, lpc,
           sdAddrs, sdMain, sdConn, sdLoop, sdCtx, sdSig, sdCount >>

parseVars  == << pdata, pres, ppc >>
codecVars  == << cq, cmsg, crecs, ccall, cresp, cback, cpc >>
zoneVars   == << zName, zRecords, zSOA, zAdded, zOut >>
findVars   == << fzones, fOut >>
serverVars == << szones, hpc, hdata, hquery, hzone, hrecords, hcall, hresp, hsent,
                 bArr, bLen, queries, answers, nxdomain, errors >>
ttlVars    == << tin, tout, tpc >>
loadVars   == << lfile, lres, lpc >>
loaderVars == << ttlVars, loadVars >>
shutdownVars == << sdAddrs, sdMain, sdConn, sdLoop, sdCtx, sdSig, sdCount >>

(***************************************************************************)
(* Program constants (dns/types.go).                                       *)
(***************************************************************************)
TypeA     == 1
TypeNS    == 2
TypeCNAME == 5
TypeSOA   == 6
TypeMX    == 15
TypeTXT   == 16
TypeAAAA  == 28
ClassIN   == 1

RcodeNoError   == 0
RcodeNameError == 3
RcodeRefused   == 5

FlagQR == 32768
FlagAA == 1024
FlagTC == 512
FlagRD == 256
FlagRA == 128

\* v & flag # 0, for a flag that is a single bit
HasFlag(v, flag) == (v \div flag) % 2 = 1

(***************************************************************************)
(* String helpers: Go's strings package on ASCII byte strings.             *)
(***************************************************************************)
Dot   == <<46>>
Colon == <<58>>
At    == <<64>>

ToLowerByte(b) == IF b >= 65 /\ b <= 90 THEN b + 32 ELSE b
ToUpperByte(b) == IF b >= 97 /\ b <= 122 THEN b - 32 ELSE b

ToLower(s) == [i \in 1..Len(s) |-> ToLowerByte(s[i])]
ToUpper(s) == [i \in 1..Len(s) |-> ToUpperByte(s[i])]

HasPrefix(s, p) == Len(s) >= Len(p) /\ SubSeq(s, 1, Len(p)) = p
HasSuffix(s, p) == Len(s) >= Len(p) /\ SubSeq(s, Len(s) - Len(p) + 1, Len(s)) = p
TrimSuffix(s, p) == IF HasSuffix(s, p) THEN SubSeq(s, 1, Len(s) - Len(p)) ELSE s

\* strings.Split(s, "."): n separators give n+1 pieces, the empty string one empty piece
Split(s) ==
    LET IsDot(i) == s[i] = 46
        dots == SelectSeq([ i \in 1..Len(s) |-> i ], IsDot)
        cuts == << 0 >> \o dots \o << Len(s) + 1 >>
    IN [ k \in 1..Len(dots) + 1 |-> SubSeq(s, cuts[k] + 1, cuts[k + 1] - 1) ]

\* strings.Join(labels, ".")
RECURSIVE Join(_)
Join(labels) ==
    IF Len(labels) = 0 THEN << >>
    ELSE IF Len(labels) = 1 THEN labels[1]
    ELSE labels[1] \o Dot \o Join(Tail(labels))

\* strconv.Itoa for n >= 0
RECURSIVE Itoa(_)
Itoa(n) == IF n < 10 THEN << 48 + n >> ELSE Itoa(n \div 10) \o << 48 + (n % 10) >>

\* binary.BigEndian
U16(v) == << (v \div 256) % 256, v % 256 >>
\* A uint32 is held as its two 16-bit halves << high, low >> (TLC's integers are
\* 32-bit signed): V32(n) is the uint32 n < 2^31, U32 is PutUint32 and BE32 is
\* Uint32 of data[lo:lo+4].
V32(n) == << n \div 65536, n % 65536 >>
U32(v) == U16(v[1]) \o U16(v[2])
\* the big-endian integer held in data[lo:hi] (Go indices); the callers check the range
RECURSIVE BE(_, _, _)
BE(data, lo, hi) == IF lo >= hi THEN 0 ELSE BE(data, lo, hi - 1) * 256 + data[hi]
BE32(data, lo) == << BE(data, lo, lo + 2), BE(data, lo + 2, lo + 4) >>
\* data[lo:hi] (Go indices)
Slice(data, lo, hi) == SubSeq(data, lo + 1, hi)

\* n bytes b
Rep(b, n) == [ i \in 1..n |-> b ]


(***************************************************************************)
(* Wire codec: parser (dns/parser.go).                                     *)
(*                                                                         *)
(* A result's st is "ok" (nil error), "err" (an error is returned),        *)
(* "panic" (Go's run-time bounds check fails on a slice expression) or     *)
(* "overflow": parseName re-enters, through compression pointers, an       *)
(* offset whose invocation is still pending.  parseName's behaviour is a   *)
(* function of the buffer and the offset alone (labels and visited start   *)
(* empty in every invocation), so such a re-entry repeats without end: the *)
(* goroutine's stack grows until the Go runtime aborts the process with    *)
(* "fatal error: stack overflow"; Parse never returns.                     *)
(***************************************************************************)
NoRR == [ Name |-> << >>, Type |-> 0, Class |-> 0, TTL |-> << 0, 0 >>, RDLength |-> 0,
          RData |-> << >>, Address |-> << >>, Target |-> << >>, Priority |-> 0,
          Text |-> << >>, SOAData |-> << >> ]
NoQuestion == [ Name |-> << >>, Type |-> 0, Class |-> 0 ]
NoHeader == [ ID |-> 0, Flags |-> 0, QDCount |-> 0, ANCount |-> 0, NSCount |-> 0, ARCount |-> 0 ]
NoMessage == [ Header |-> NoHeader, Questions |-> << >>, Answers |-> << >>,
               Authority |-> << >>, Additional |-> << >> ]

\* the slice expression data[lo:hi] is within the buffer
SliceOK(data, lo, hi) == 0 <= lo /\ lo <= hi /\ hi <= Len(data)

\* length&0xC0 == 0xC0
IsPointer(length) == (length \div 64) % 4 = 3

NameOk(name, pos) == [ st |-> "ok", name |-> name, pos |-> pos ]
NameFail(st) == [ st |-> st, name |-> << >>, pos |-> 0 ]

\* parseName leaving the cursor where the pointed-to name ended (no
\* "p.pos = savedPos")
afterPointerNoRestore(labels, savedPos, rest) ==
    IF rest.st # "ok" THEN NameFail(rest.st)
    ELSE IF Len(labels) > 0 THEN NameOk(Join(labels) \o Dot \o rest.name, rest.pos)
    ELSE NameOk(rest.name, rest.pos)
\* parseName from "p.pos = savedPos" on: rest is what the invocation at the
\* offset returned, savedPos the cursor after the two pointer bytes
afterPointer(labels, savedPos, rest) ==
    IF rest.st # "ok" THEN NameFail(rest.st)
    ELSE IF Len(labels) > 0 THEN NameOk(Join(labels) \o Dot \o rest.name, savedPos)
    ELSE NameOk(rest.name, savedPos)

\* parseName: one invocation's for-loop at cursor pos, with the labels and the
\* visited map of this invocation; chain holds the offsets of the pending
\* invocations entered through a pointer.
RECURSIVE parseNameLoop(_, _, _, _, _)
parseNameLoop(data, pos, labels, visited, chain) ==
    IF pos >= Len(data) THEN NameFail("err")
    ELSE LET length == data[pos + 1] IN
      IF IsPointer(length)
      THEN IF pos + 1 >= Len(data) THEN NameFail("err")
           ELSE IF ~SliceOK(data, pos, pos + 2) THEN NameFail("panic")
           ELSE LET offset == BE(data, pos, pos + 2) % 16384 IN
                IF offset \in visited THEN NameFail("err")
                ELSE IF offset \in chain THEN NameFail("overflow")
                ELSE afterPointer(labels, pos + 2,
                                  parseNameLoop(data, offset, << >>, {}, chain \cup {offset}))
      ELSE IF length = 0 THEN NameOk(Join(labels), pos + 1)
      ELSE IF pos + 1 + length > Len(data) THEN NameFail("err")
      ELSE IF ~SliceOK(data, pos + 1, pos + 1 + length) THEN NameFail("panic")
      ELSE parseNameLoop(data, pos + 1 + length,
                         Append(labels, Slice(data, pos + 1, pos + 1 + length)),
                         visited, chain)

parseName(data, pos) == parseNameLoop(data, pos, << >>, {}, {})

RECURSIVE parseTXTLoop(_, _, _)
parseTXTLoop(rdata, pos, texts) ==
    IF pos >= Len(rdata) THEN texts
    ELSE LET length == rdata[pos + 1] IN
         IF pos + 1 + length > Len(rdata) THEN texts
         ELSE parseTXTLoop(rdata, pos + 1 + length,
                           Append(texts, Slice(rdata, pos + 1, pos + 1 + length)))
parseTXT(rdata) == parseTXTLoop(rdata, 0, << >>)

parseHeader(data) ==
    IF Len(data) < 12 THEN [ st |-> "err", h |-> NoHeader, pos |-> 0 ]
    ELSE [ st |-> "ok",
           h |-> [ ID |-> BE(data, 0, 2), Flags |-> BE(data, 2, 4),
                   QDCount |-> BE(data, 4, 6), ANCount |-> BE(data, 6, 8),
                   NSCount |-> BE(data, 8, 10), ARCount |-> BE(data, 10, 12) ],
           pos |-> 12 ]

\* parseQuestion once parseName has returned n
questionAfterName(data, n) ==
    IF n.st # "ok" THEN [ st |-> n.st, q |-> NoQuestion, pos |-> 0 ]
    ELSE IF n.pos + 4 > Len(data) THEN [ st |-> "err", q |-> NoQuestion, pos |-> 0 ]
    ELSE IF ~SliceOK(data, n.pos, n.pos + 4) THEN [ st |-> "panic", q |-> NoQuestion, pos |-> 0 ]
    ELSE [ st |-> "ok",
           q |-> [ Name |-> n.name, Type |-> BE(data, n.pos, n.pos + 2),
                   Class |-> BE(data, n.pos + 2, n.pos + 4) ],
           pos |-> n.pos + 4 ]

parseQuestion(data, pos) == questionAfterName(data, parseName(data, pos))

RRFail(st) == [ st |-> st, rr |-> NoRR, pos |-> 0 ]

\* rr.Target, _ = p.parseName(): the error is dropped and the name kept, but
\* an invocation that does not return does not return here either
withTarget(rr, t) ==
    IF t.st \in {"overflow", "panic"} THEN [ st |-> t.st, rr |-> rr ]
    ELSE [ st |-> "ok", rr |-> [rr EXCEPT !.Target = t.name] ]

\* the type switch of parseResourceRecord, with the cursor p at the start of RDATA
parseRData(data, p, rr) ==
    IF rr.Type = TypeA
    THEN [ st |-> "ok", rr |-> IF rr.RDLength = 4 THEN [rr EXCEPT !.Address = rr.RData] ELSE rr ]
    ELSE IF rr.Type = TypeAAAA
    THEN [ st |-> "ok", rr |-> IF rr.RDLength = 16 THEN [rr EXCEPT !.Address = rr.RData] ELSE rr ]
    ELSE IF rr.Type = TypeCNAME \/ rr.Type = TypeNS
    THEN withTarget(rr, parseName(data, p))
    ELSE IF rr.Type = TypeMX
    THEN IF rr.RDLength >= 2
         THEN withTarget([rr EXCEPT !.Priority = BE(rr.RData, 0, 2)], parseName(data, p + 2))
         ELSE [ st |-> "ok", rr |-> rr ]
    ELSE IF rr.Type = TypeTXT
    THEN [ st |-> "ok", rr |-> [rr EXCEPT !.Text = parseTXT(rr.RData)] ]
    ELSE [ st |-> "ok", rr |-> rr ]

\* parseResourceRecord once the type switch has given d; pos is the cursor after RDATA
recordAfterRData(d, pos) ==
    IF d.st # "ok" THEN RRFail(d.st) ELSE [ st |-> "ok", rr |-> d.rr, pos |-> pos ]

\* parseResourceRecord leaving the cursor where decoding a CNAME or NS target
\* ended (no "p.pos = savedPos") before it adds RDLENGTH
recordAfterFixedNoRestore(data, n, p, rdlen) ==
    IF p + rdlen > Len(data) THEN RRFail("err")
    ELSE IF ~SliceOK(data, p, p + rdlen) THEN RRFail("panic")
    ELSE recordAfterRData(
             parseRData(data, p, [ NoRR EXCEPT !.Name = n.name,
                                               !.Type = BE(data, n.pos, n.pos + 2),
                                               !.Class = BE(data, n.pos + 2, n.pos + 4),
                                               !.TTL = BE32(data, n.pos + 4),
                                               !.RDLength = rdlen,
                                               !.RData = Slice(data, p, p + rdlen) ]),
             IF BE(data, n.pos, n.pos + 2) \in {TypeCNAME, TypeNS} /\ parseName(data, p).st = "ok"
             THEN parseName(data, p).pos + rdlen
             ELSE p + rdlen)

\* parseResourceRecord once the fixed fields are known to be in the buffer:
\* p is the cursor after them and rdlen is RDLENGTH
recordAfterFixed(data, n, p, rdlen) ==
    IF p + rdlen > Len(data) THEN RRFail("err")
    ELSE IF ~SliceOK(data, p, p + rdlen) THEN RRFail("panic")
    ELSE recordAfterRData(
             parseRData(data, p, [ NoRR EXCEPT !.Name = n.name,
                                               !.Type = BE(data, n.pos, n.pos + 2),
                                               !.Class = BE(data, n.pos + 2, n.pos + 4),
                                               !.TTL = BE32(data, n.pos + 4),
                                               !.RDLength = rdlen,
                                               !.RData = Slice(data, p, p + rdlen) ]),
             p + rdlen)

\* parseResourceRecord once parseName has returned n
recordAfterName(data, n) ==
    IF n.st # "ok" THEN RRFail(n.st)
    ELSE IF n.pos + 10 > Len(data) THEN RRFail("err")
    ELSE IF ~SliceOK(data, n.pos, n.pos + 10) THEN RRFail("panic")
    ELSE recordAfterFixed(data, n, n.pos + 10, BE(data, n.pos + 8, n.pos + 10))

parseResourceRecord(data, pos) == recordAfterName(data, parseName(data, pos))

\* the loop "for i := 0; i < int(QDCount); i++ { parseQuestion }"
RECURSIVE parseQuestions(_, _, _, _)
parseQuestions(data, pos, n, acc) ==
    IF n = 0 THEN [ st |-> "ok", list |-> acc, pos |-> pos ]
    ELSE LET r == parseQuestion(data, pos) IN
         IF r.st # "ok" THEN [ st |-> r.st, list |-> << >>, pos |-> 0 ]
         ELSE parseQuestions(data, r.pos, n - 1, Append(acc, r.q))

\* the loops "for i := 0; i < int(count); i++ { parseResourceRecord }"
RECURSIVE parseRecords(_, _, _, _)
parseRecords(data, pos, n, acc) ==
    IF n = 0 THEN [ st |-> "ok", list |-> acc, pos |-> pos ]
    ELSE LET r == parseResourceRecord(data, pos) IN
         IF r.st # "ok" THEN [ st |-> r.st, list |-> << >>, pos |-> 0 ]
         ELSE parseRecords(data, r.pos, n - 1, Append(acc, r.rr))

ParseFail(st) == [ st |-> st, msg |-> NoMessage, pos |-> 0 ]

\* Parse section by section: each operator takes the results so far and the
\* result of the section just parsed
parseAfterAdditional(h, qs, an, ns, ar) ==
    IF ar.st # "ok" THEN ParseFail(ar.st)
    ELSE [ st |-> "ok",
           msg |-> [ Header |-> h.h, Questions |-> qs.list, Answers |-> an.list,
                     Authority |-> ns.list, Additional |-> ar.list ],
           pos |-> ar.pos ]

parseAfterAuthority(data, h, qs, an, ns) ==
    IF ns.st # "ok" THEN ParseFail(ns.st)
    ELSE parseAfterAdditional(h, qs, an, ns, parseRecords(data, ns.pos, h.h.ARCount, << >>))

parseAfterAnswers(data, h, qs, an) ==
    IF an.st # "ok" THEN ParseFail(an.st)
    ELSE parseAfterAuthority(data, h, qs, an, parseRecords(data, an.pos, h.h.NSCount, << >>))

parseAfterQuestions(data, h, qs) ==
    IF qs.st # "ok" THEN ParseFail(qs.st)
    ELSE parseAfterAnswers(data, h, qs, parseRecords(data, qs.pos, h.h.ANCount, << >>))

parseAfterHeader(data, h) ==
    IF h.st # "ok" THEN ParseFail(h.st)
    ELSE parseAfterQuestions(data, h, parseQuestions(data, h.pos, h.h.QDCount, << >>))

Parse(data) == parseAfterHeader(data, parseHeader(data))

(***************************************************************************)
(* Wire codec: builder (dns/builder.go).  Each operator gives the bytes    *)
(* the method appends to b.data.                                           *)
(***************************************************************************)
\* net.IP.To4 and net.IP.To16
V4Prefix == Rep(0, 10) \o << 255, 255 >>
To4(ip) ==
    IF Len(ip) = 4 THEN ip
    ELSE IF Len(ip) = 16 /\ SubSeq(ip, 1, 12) = V4Prefix THEN SubSeq(ip, 13, 16)
    ELSE << >>
To16(ip) ==
    IF Len(ip) = 4 THEN V4Prefix \o ip
    ELSE IF Len(ip) = 16 THEN ip
    ELSE << >>

RECURSIVE encodeLabels(_)
encodeLabels(labels) ==
    IF Len(labels) = 0 THEN << >>
    ELSE LET label == IF Len(labels[1]) > 63 THEN SubSeq(labels[1], 1, 63) ELSE labels[1]
         IN << Len(label) >> \o label \o encodeLabels(Tail(labels))

encodeName(name) ==
    IF name = << >> \/ name = Dot THEN << 0 >>
    ELSE encodeLabels(Split(TrimSuffix(name, Dot))) \o << 0 >>

RECURSIVE encodeTXT(_)
encodeTXT(texts) ==
    IF Len(texts) = 0 THEN << >>
    ELSE LET text == IF Len(texts[1]) > 255 THEN SubSeq(texts[1], 1, 255) ELSE texts[1]
         IN << Len(text) >> \o text \o encodeTXT(Tail(texts))

encodeSOA(soa) ==
    encodeName(soa.MName) \o encodeName(soa.RName) \o U32(soa.Serial) \o U32(soa.Refresh)
        \o U32(soa.Retry) \o U32(soa.Expire) \o U32(soa.Minimum)

\* buildRData writing an A record's address as it is held, without To4
buildRDataRaw(rr) ==
    IF rr.Type = TypeA THEN rr.Address
    ELSE IF rr.Type = TypeAAAA THEN To16(rr.Address)
    ELSE IF rr.Type = TypeCNAME \/ rr.Type = TypeNS THEN encodeName(rr.Target)
    ELSE IF rr.Type = TypeMX THEN U16(rr.Priority) \o encodeName(rr.Target)
    ELSE IF rr.Type = TypeTXT THEN encodeTXT(rr.Text)
    ELSE IF rr.Type = TypeSOA /\ rr.SOAData # << >> THEN encodeSOA(rr.SOAData[1])
    ELSE rr.RData

buildRData(rr) ==
    IF rr.Type = TypeA THEN To4(rr.Address)
    ELSE IF rr.Type = TypeAAAA THEN To16(rr.Address)
    ELSE IF rr.Type = TypeCNAME \/ rr.Type = TypeNS THEN encodeName(rr.Target)
    ELSE IF rr.Type = TypeMX THEN U16(rr.Priority) \o encodeName(rr.Target)
    ELSE IF rr.Type = TypeTXT THEN encodeTXT(rr.Text)
    ELSE IF rr.Type = TypeSOA /\ rr.SOAData # << >> THEN encodeSOA(rr.SOAData[1])
    ELSE rr.RData

writeHeader(h) ==
    U16(h.ID) \o U16(h.Flags) \o U16(h.QDCount) \o U16(h.ANCount) \o U16(h.NSCount) \o U16(h.ARCount)

writeQuestion(q) == encodeName(q.Name) \o U16(q.Type) \o U16(q.Class)

writeResourceRecord(rr) ==
    LET rdata == buildRData(rr) IN
    encodeName(rr.Name) \o U16(rr.Type) \o U16(rr.Class) \o U32(rr.TTL)
        \o U16(Len(rdata) % 65536) \o rdata

RECURSIVE writeQuestions(_)
writeQuestions(qs) == IF Len(qs) = 0 THEN << >> ELSE writeQuestion(qs[1]) \o writeQuestions(Tail(qs))

RECURSIVE writeRecords(_)
writeRecords(rrs) == IF Len(rrs) = 0 THEN << >> ELSE writeResourceRecord(rrs[1]) \o writeRecords(Tail(rrs))

\* the Header literal of BuildResponse
responseHeader(query, ans, auth) ==
    [ ID |-> query.Header.ID,
      Flags |-> FlagQR + FlagAA + (IF HasFlag(query.Header.Flags, FlagRD) THEN FlagRD ELSE 0),
      QDCount |-> Len(query.Questions) % 65536,
      ANCount |-> Len(ans) % 65536,
      NSCount |-> Len(auth) % 65536,
      ARCount |-> 0 ]

\* the Header literal of BuildErrorResponse (rcode < 16 sets no bit of QR or AA)
errorHeader(query, rcode) ==
    [ ID |-> query.Header.ID,
      Flags |-> FlagQR + FlagAA + rcode,
      QDCount |-> Len(query.Questions) % 65536,
      ANCount |-> 0, NSCount |-> 0, ARCount |-> 0 ]

\* the bytes of b.data when the build runs alone on the Builder
BuildResponse(query, ans, auth) ==
    writeHeader(responseHeader(query, ans, auth)) \o writeQuestions(query.Questions)
        \o writeRecords(ans) \o writeRecords(auth)

BuildErrorResponse(query, rcode) ==
    writeHeader(errorHeader(query, rcode)) \o writeQuestions(query.Questions)

(***************************************************************************)
(* Values of the variables a specification does not use.                   *)
(***************************************************************************)
NoResult  == [ st |-> "none" ]
ParseOff  == pdata = << >> /\ pres = NoResult /\ ppc = "off"
NoCall    == [ fn |-> "none" ]
CodecOff  == /\ cq = << >> /\ cmsg = NoResult /\ crecs = << >> /\ ccall = NoCall
             /\ cresp = << >> /\ cback = NoResult /\ cpc = "off"
ZoneOff   == /\ zName = << >> /\ zRecords = << >> /\ zSOA = << >> /\ zAdded = << >>
             /\ zOut = [ op |-> "off" ]
FindOff   == fzones = {} /\ fOut = [ op |-> "off" ]
TTLOff    == tin = << >> /\ tout = NoResult /\ tpc = "off"
LoadOff   == lfile = << >> /\ lres = NoResult /\ lpc = "off"
LoaderOff == TTLOff /\ LoadOff
ShutdownOff == /\ sdAddrs = {} /\ sdMain = "off" /\ sdConn = << >> /\ sdLoop = << >>
               /\ sdCtx = FALSE /\ sdSig = "off" /\ sdCount = << >>
ServerOff == /\ szones = {} /\ hpc = << >> /\ hdata = << >> /\ hquery = << >>
             /\ hzone = << >> /\ hrecords = << >> /\ hcall = << >> /\ hresp = << >> /\ hsent = << >>
             /\ bArr = << >> /\ bLen = 0
             /\ queries = 0 /\ answers = 0 /\ nxdomain = 0 /\ errors = 0

(***************************************************************************)
(* SpecParse: Parser.Parse run on one received datagram.                   *)
(***************************************************************************)
\* the longest datagram body, in fragments
MaxFrags == 3

\* a 12-byte header: ID 0x1234, flags RD, the four section counts
Hdr(qd, an, ns, ar) == U16(4660) \o U16(FlagRD) \o U16(qd) \o U16(an) \o U16(ns) \o U16(ar)

\* pieces of a datagram body: the label "a", the end of a name, pointers to
\* offsets 12 and 14, the type and class of a question, and the fixed part and
\* RDATA of an A record, of a CNAME record whose target is a pointer, of an MX
\* record whose target is a pointer, and of a CNAME record whose target is a
\* label running past the buffer, of an A record of two bytes and of an AAAA
\* record of four; the question "a" A IN, the name "b" and then a pointer, and
\* the rest of a CNAME record whose target is "a" and then a pointer
Frags == { << 1, 97 >>, << 0 >>, << 192, 12 >>, << 192, 14 >>, << 0, 1, 0, 1 >>,
           << 0, 1, 0, 1, 0, 0, 0, 60, 0, 4, 1, 2, 3, 4 >>,
           << 0, 1, 0, 1, 0, 0, 0, 60, 0, 2, 1, 2 >>,
           << 0, 28, 0, 1, 0, 0, 0, 60, 0, 4, 1, 2, 3, 4 >>,
           << 1, 97, 0, 0, 1, 0, 1 >>, << 1, 98, 192, 12 >>,
           << 0, 5, 0, 1, 0, 0, 0, 60, 0, 4, 1, 97, 192, 12 >>,
           << 0, 5, 0, 1, 0, 0, 0, 60, 0, 2, 192, 12 >>,
           << 0, 15, 0, 1, 0, 0, 0, 60, 0, 4, 0, 10, 192, 12 >>,
           << 0, 5, 0, 1, 0, 0, 0, 60, 0, 2, 5, 97 >> }

RECURSIVE BodiesUpTo(_)
BodiesUpTo(n) ==
    IF n = 0 THEN { << >> }
    ELSE LET prev == BodiesUpTo(n - 1) IN prev \cup { b \o f : b \in prev, f \in Frags }

ParseInputs ==
    { SubSeq(Hdr(1, 0, 0, 0), 1, n) : n \in 0..11 }
        \cup { Hdr(qd, an, 0, 0) \o b : qd \in 0..2, an \in 0..1, b \in BodiesUpTo(MaxFrags) }

ParseInit ==
    /\ pdata \in ParseInputs /\ pres = NoResult /\ ppc = "ready"
    /\ CodecOff /\ ZoneOff /\ FindOff /\ ServerOff /\ LoaderOff /\ ShutdownOff

DoParse ==
    /\ ppc = "ready"
    /\ pres' = Parse(pdata)
    /\ ppc' = "done"
    /\ UNCHANGED << pdata, codecVars, zoneVars, findVars, serverVars, loaderVars, shutdownVars >>

ParseNext == DoParse

SpecParse == ParseInit /\ [][ParseNext]_vars

\* the section counts of the header call for more bytes than follow it: a
\* question takes at least 5 bytes, a resource record at least 11
CountsExceed(data) ==
    /\ Len(data) >= 12
    /\ 5 * BE(data, 4, 6) + 11 * (BE(data, 6, 8) + BE(data, 8, 10) + BE(data, 10, 12)) > Len(data) - 12

\* C1: Parse terminates on every input: it never recurses without bound, and
\* on a name whose compression pointers loop it returns an error.
C1_ParseTerminates == ppc = "done" => pres.st \in {"ok", "err"}

\* C3: Parse never reads outside the buffer; it returns an error on fewer than
\* 12 bytes and when the section counts call for more than the bytes hold.
C3_ParseInBounds ==
    ppc = "done" =>
        /\ pres.st # "panic"
        /\ Len(pdata) < 12 => pres.st = "err"
        /\ CountsExceed(pdata) => pres.st = "err"

\* no run of Parse fails a bounds check
ParseNeverPanics == pres.st # "panic"
\* short of unbounded recursion, a short buffer and excessive counts give an error
ParseRejectsShort ==
    (ppc = "done" /\ pres.st # "overflow" /\ (Len(pdata) < 12 \/ CountsExceed(pdata)))
        => pres.st = "err"

\* the offset after the name written at offset pos: after its end octet or
\* after its first pointer
RECURSIVE WireNameEnd(_, _)
WireNameEnd(data, pos) ==
    IF data[pos + 1] >= 192 THEN pos + 2
    ELSE IF data[pos + 1] = 0 THEN pos + 1
    ELSE WireNameEnd(data, pos + 1 + data[pos + 1])
\* a message of one record, an answer, which Parse accepts
OneAnswer ==
    /\ ppc = "done" /\ pres.st = "ok"
    /\ BE(pdata, 4, 6) = 0 /\ BE(pdata, 6, 8) = 1 /\ BE(pdata, 8, 10) = 0 /\ BE(pdata, 10, 12) = 0

\* C30: when parseResourceRecord returns successfully the cursor is (the offset
\* after the owner name) + 10 + RDLENGTH, whatever the type, also when the
\* target of the record is a pointer or does not decode.
C30_CursorAfterRecord ==
    OneAnswer =>
        pres.pos = WireNameEnd(pdata, 12) + 10
                       + BE(pdata, WireNameEnd(pdata, 12) + 8, WireNameEnd(pdata, 12) + 10)
\* a CNAME record whose target was decoded through a pointer to the name "a"
C30_Witness ==
    /\ OneAnswer
    /\ pres.msg.Answers[1].Type = TypeCNAME /\ pres.msg.Answers[1].Target = << 97 >>


\* C31: parsing fails for a message that holds a type A record whose RDLENGTH
\* is not 4 or a type AAAA record whose RDLENGTH is not 16: no parsed message
\* holds an A or AAAA record without an address of the right size.
C31_AddressSize ==
    ppc = "done" /\ pres.st = "ok" =>
        \A i \in 1..Len(pres.msg.Answers) :
            /\ pres.msg.Answers[i].Type = TypeA => Len(pres.msg.Answers[i].Address) = 4
            /\ pres.msg.Answers[i].Type = TypeAAAA => Len(pres.msg.Answers[i].Address) = 16


\* what the name written at offset pos stands for: the labels up to the end
\* octet or the first pointer, joined by dots, and after a pointer the name at
\* its offset; jumps bounds the pointers followed
RECURSIVE Decoded(_, _, _, _)
Decoded(data, pos, labels, jumps) ==
    IF pos >= Len(data) THEN [ ok |-> FALSE, name |-> << >> ]
    ELSE IF data[pos + 1] >= 192
    THEN IF pos + 1 >= Len(data) \/ jumps = 0 THEN [ ok |-> FALSE, name |-> << >> ]
         ELSE LET at == Decoded(data, (data[pos + 1] - 192) * 256 + data[pos + 2], << >>, jumps - 1)
              IN [ ok |-> at.ok,
                   name |-> IF labels = << >> THEN at.name ELSE Join(labels) \o Dot \o at.name ]
    ELSE IF data[pos + 1] = 0 THEN [ ok |-> TRUE, name |-> Join(labels) ]
    ELSE IF pos + 1 + data[pos + 1] > Len(data) THEN [ ok |-> FALSE, name |-> << >> ]
    ELSE Decoded(data, pos + 1 + data[pos + 1],
                 Append(labels, SubSeq(data, pos + 2, pos + 1 + data[pos + 1])), jumps)
\* a message of at most one question and of one record, an answer, which
\* Parse accepts; the offset of the record's owner and of what follows it
OneRecord ==
    /\ ppc = "done" /\ pres.st = "ok"
    /\ BE(pdata, 4, 6) <= 1 /\ BE(pdata, 6, 8) = 1 /\ BE(pdata, 8, 10) = 0 /\ BE(pdata, 10, 12) = 0
OwnerAt == IF BE(pdata, 4, 6) = 1 THEN WireNameEnd(pdata, 12) + 4 ELSE 12
FixedAt == WireNameEnd(pdata, OwnerAt)
\* the offset of the record's target when it is of a type that has one
TargetAt == IF BE(pdata, FixedAt, FixedAt + 2) = TypeMX THEN FixedAt + 12 ELSE FixedAt + 10

\* C32: a name made of labels and then a compression pointer to offset o
\* decodes to the labels joined by dots with the name decoded at offset o of
\* the whole message, and the cursor afterwards is just past the two pointer
\* bytes; CNAME, NS and MX targets in RDATA resolve their pointers against the
\* whole message.
C32_PointerSplice ==
    OneRecord =>
        LET rr == pres.msg.Answers[1] IN
        /\ rr.Name = Decoded(pdata, OwnerAt, << >>, 3).name
        /\ rr.Type = BE(pdata, FixedAt, FixedAt + 2)
        /\ rr.RDLength = BE(pdata, FixedAt + 8, FixedAt + 10)
        /\ rr.RData = SubSeq(pdata, FixedAt + 11, FixedAt + 10 + rr.RDLength)
        /\ (rr.Type \in { TypeCNAME, TypeNS } \/ (rr.Type = TypeMX /\ rr.RDLength >= 2))
               /\ Decoded(pdata, TargetAt, << >>, 3).ok
               => rr.Target = Decoded(pdata, TargetAt, << >>, 3).name
\* the question "a", then an A record whose owner is the label "b" and a
\* pointer to the question's name
C32_Witness ==
    /\ OneRecord
    /\ SubSeq(pdata, 13, 23) = << 1, 97, 0, 0, 1, 0, 1, 1, 98, 192, 12 >>
    /\ pres.msg.Answers[1].Name = << 98, 46, 97 >>
    /\ pres.msg.Answers[1].Address = << 1, 2, 3, 4 >>
\* a CNAME record whose target is the label "a" and a pointer to the owner "a"
C32_TargetReached ==
    /\ OneRecord
    /\ pres.msg.Answers[1].Type = TypeCNAME /\ pres.msg.Answers[1].Target = << 97, 46, 97 >>

(***************************************************************************)
(* SpecCodec: a query is parsed, a response to it is built (BuildResponse  *)
(* with the answer records crecs, or BuildErrorResponse) and the response  *)
(* is parsed again.                                                        *)
(***************************************************************************)
\* the longest run of a repeated byte in a generated label, less the 63 bytes
\* a label may have
MaxExtra == 1

\* query names on the wire: "a", "A.b", the root, a label holding a dot, labels
\* beginning or ending with a dot, and labels of 63 and of up to 63 + MaxExtra bytes
QueryNames ==
    { << 1, 97, 0 >>, << 1, 65, 1, 98, 0 >>, << 0 >>, << 1, 46, 0 >>, << 2, 46, 97, 0 >>,
      << 2, 97, 46, 0 >>, << 3, 97, 46, 98, 0 >> }
        \cup { << 63 + k >> \o Rep(97, 63 + k) \o << 0 >> : k \in 0..MaxExtra }

CodecQueries ==
    { Hdr(0, 0, 0, 0) }
        \cup { U16(id) \o U16(fl) \o U16(1) \o U16(0) \o U16(0) \o U16(0) \o n \o U16(t) \o U16(ClassIN) :
                 id \in {4660, 65535}, fl \in {0, FlagRD}, n \in QueryNames, t \in {TypeA, TypeMX} }

\* names as records hold them: "a.b", "b", "ns.b", "m.b", "h.b"
RR(name, type, ttl) == [ NoRR EXCEPT !.Name = name, !.Type = type, !.Class = ClassIN, !.TTL = ttl ]
TheSOA == [ MName |-> << 110, 115, 46, 98 >>, RName |-> << 104, 46, 98 >>,
            Serial |-> << 30000, 101 >>, Refresh |-> V32(7200), Retry |-> V32(3600),
            Expire |-> << 18, 29952 >>, Minimum |-> V32(300) ]
CodecRecords ==
    LET n == << 97, 46, 98 >> IN
    { [ RR(n, TypeA, V32(3600)) EXCEPT !.Address = << 93, 184, 216, 34 >> ],
      [ RR(n, TypeA, << 40000, 7 >>) EXCEPT !.Address = V4Prefix \o << 1, 2, 3, 4 >> ],
      [ RR(n, TypeAAAA, V32(3600)) EXCEPT !.Address = << 38, 6, 40, 0, 2, 32, 0, 1, 2, 72, 24, 147, 37, 200, 25, 70 >> ],
      [ RR(n, TypeCNAME, V32(60)) EXCEPT !.Target = << 98 >> ],
      [ RR(n, TypeNS, V32(60)) EXCEPT !.Target = << 110, 115, 46, 98 >> ],
      [ RR(n, TypeMX, V32(60)) EXCEPT !.Priority = 10, !.Target = << 109, 46, 98 >> ],
      [ RR(n, TypeMX, V32(60)) EXCEPT !.Priority = 770, !.Target = << 98 >> ],
      [ RR(n, TypeTXT, V32(60)) EXCEPT !.Text = << << 118, 61, 49 >> >> ],
      [ RR(n, TypeTXT, V32(60)) EXCEPT !.Text = << << 118 >>, << >>, << 32, 120 >> >> ],
      [ RR(n, TypeSOA, V32(60)) EXCEPT !.SOAData = << TheSOA >> ] }

CodecInit ==
    /\ cq \in CodecQueries
    /\ crecs \in { << >> } \cup { << r >> : r \in CodecRecords }
    /\ cmsg = NoResult /\ ccall = NoCall /\ cresp = << >> /\ cback = NoResult /\ cpc = "start"
    /\ ParseOff /\ ZoneOff /\ FindOff /\ ServerOff /\ LoaderOff /\ ShutdownOff

CParse ==
    /\ cpc = "start"
    /\ cmsg' = Parse(cq)
    /\ cpc' = IF cmsg'.st = "ok" THEN "parsed" ELSE "rejected"
    /\ UNCHANGED << cq, crecs, ccall, cresp, cback, parseVars, zoneVars, findVars, serverVars, loaderVars, shutdownVars >>

CBuildResponse ==
    /\ cpc = "parsed"
    /\ cresp' = BuildResponse(cmsg.msg, crecs, << >>)
    /\ ccall' = [ fn |-> "BuildResponse" ]
    /\ cpc' = "built"
    /\ UNCHANGED << cq, cmsg, crecs, cback, parseVars, zoneVars, findVars, serverVars, loaderVars, shutdownVars >>

CBuildErrorResponse ==
    /\ cpc = "parsed" /\ crecs = << >>
    /\ \E rcode \in {RcodeNameError, RcodeRefused} :
          /\ cresp' = BuildErrorResponse(cmsg.msg, rcode)
          /\ ccall' = [ fn |-> "BuildErrorResponse", rcode |-> rcode ]
    /\ cpc' = "built"
    /\ UNCHANGED << cq, cmsg, crecs, cback, parseVars, zoneVars, findVars, serverVars, loaderVars, shutdownVars >>

CReparse ==
    /\ cpc = "built"
    /\ cback' = Parse(cresp)
    /\ cpc' = "done"
    /\ UNCHANGED << cq, cmsg, crecs, ccall, cresp, parseVars, zoneVars, findVars, serverVars, loaderVars, shutdownVars >>

CodecNext == CParse \/ CBuildResponse \/ CBuildErrorResponse \/ CReparse

SpecCodec == CodecInit /\ [][CodecNext]_vars

\* net.IP.Equal
IPEqual(x, y) ==
    IF Len(x) = Len(y) THEN x = y
    ELSE IF Len(x) = 4 /\ Len(y) = 16 THEN V4Prefix \o x = y
    ELSE IF Len(x) = 16 /\ Len(y) = 4 THEN x = V4Prefix \o y
    ELSE FALSE

\* a dotted name as the data model has it: empty, or labels of 1 to 63 bytes
WellFormedName(name) ==
    name = << >> \/ \A i \in 1..Len(Split(name)) : Len(Split(name)[i]) \in 1..63
WellFormedQuery(m) == \A i \in 1..Len(m.Questions) : WellFormedName(m.Questions[i].Name)

\* C4: the response built from an accepted query parses, and gives back the
\* query's ID, question names (lowercased) and types, with QR and AA set.
C4_QueryRoundTrip ==
    cpc = "done" =>
        /\ cback.st = "ok"
        /\ cback.msg.Header.ID = cmsg.msg.Header.ID
        /\ HasFlag(cback.msg.Header.Flags, FlagQR)
        /\ HasFlag(cback.msg.Header.Flags, FlagAA)
        /\ Len(cback.msg.Questions) = Len(cmsg.msg.Questions)
        /\ \A i \in 1..Len(cmsg.msg.Questions) :
              /\ ToLower(cback.msg.Questions[i].Name) = ToLower(cmsg.msg.Questions[i].Name)
              /\ cback.msg.Questions[i].Type = cmsg.msg.Questions[i].Type

\* the parsed payload of got equals the payload of the record rr that was built
SamePayload(rr, got) ==
    IF rr.Type \in {TypeA, TypeAAAA} THEN IPEqual(got.Address, rr.Address)
    ELSE IF rr.Type \in {TypeCNAME, TypeNS} THEN got.Target = rr.Target
    ELSE IF rr.Type = TypeMX THEN got.Priority = rr.Priority /\ got.Target = rr.Target
    ELSE IF rr.Type = TypeTXT THEN got.Text = rr.Text
    ELSE FALSE

RecordCase == cpc = "done" /\ Len(crecs) = 1 /\ WellFormedQuery(cmsg.msg)

C16_RDMirrored ==
    cpc \in {"built", "done"} =>
        (HasFlag(BE(cresp, 2, 4), FlagRD) <=> HasFlag(cmsg.msg.Header.Flags, FlagRD))

\* C17: BuildErrorResponse gives the query's ID, QR and AA set, the rcode in
\* the low four bits of the flags, the query's questions in order with
\* QDCOUNT their number, the three other counts 0 and no byte after the
\* questions.
C17_ErrorResponse ==
    cpc = "done" /\ ccall.fn = "BuildErrorResponse" =>
        /\ cback.st = "ok"
        /\ cback.msg.Header.ID = cmsg.msg.Header.ID
        /\ HasFlag(cback.msg.Header.Flags, FlagQR) /\ HasFlag(cback.msg.Header.Flags, FlagAA)
        /\ cback.msg.Header.Flags % 16 = ccall.rcode
        /\ cback.msg.Header.QDCount = Len(cmsg.msg.Questions)
        /\ cback.msg.Questions = cmsg.msg.Questions
        /\ cback.msg.Header.ANCount = 0 /\ cback.msg.Header.NSCount = 0
        /\ cback.msg.Header.ARCount = 0
        /\ cback.pos = Len(cresp)

\* C25: name decoding fails on a length octet whose top two bits are 01 or 10
\* (64 to 191), so no decoded label is longer than 63 bytes.
C25_ReservedLengthFails ==
    cpc # "start" =>
        /\ (Len(cq) > 12 /\ cq[13] \in 64..191) => cmsg.st = "err"
        /\ cmsg.st = "ok" =>
               \A i \in 1..Len(cmsg.msg.Questions) :
                   \A k \in 1..Len(Split(cmsg.msg.Questions[i].Name)) :
                       Len(Split(cmsg.msg.Questions[i].Name)[k]) <= 63

(***************************************************************************)
(* Zone store (dns/zone.go).  Zone.Records is a function from keys (byte   *)
(* strings) to record lists; a key is in its domain once a record has been *)
(* appended under it.                                                      *)
(***************************************************************************)
\* recordKey without the case folding
recordKeyCaseSensitive(name, qtype) == name \o Colon \o Itoa(qtype)

recordKey(name, qtype) == ToLower(name) \o Colon \o Itoa(qtype)

\* Lookup falling back to the CNAME for every query type
LookupAnyType(records, name0, qtype) ==
    LET name == ToLower(name0)
        key == recordKey(name, qtype)
        cnameKey == recordKey(name, TypeCNAME)
    IN IF key \in DOMAIN records THEN records[key]
       ELSE IF cnameKey \in DOMAIN records THEN records[cnameKey]
       ELSE << >>

Lookup(records, name0, qtype) ==
    LET name == ToLower(name0)
        key == recordKey(name, qtype)
        cnameKey == recordKey(name, TypeCNAME)
    IN IF key \in DOMAIN records THEN records[key]
       ELSE IF (qtype = TypeA \/ qtype = TypeAAAA) /\ cnameKey \in DOMAIN records
            THEN records[cnameKey]
       ELSE << >>

HasName(records, name0) ==
    LET name == ToLower(name0) IN
    \E key \in DOMAIN records : HasPrefix(key, name \o Colon)

\* IsAuthoritative taking any name that ends with the zone's name
IsAuthoritativeNoDot(zoneName0, name0) ==
    LET name == ToLower(name0)
        zoneName == ToLower(zoneName0)
    IN name = zoneName \/ HasSuffix(name, zoneName)

IsAuthoritative(zoneName0, name0) ==
    LET name == ToLower(name0)
        zoneName == ToLower(zoneName0)
    IN name = zoneName \/ HasSuffix(name, Dot \o zoneName)

\* Zone.Records after AddRecord(rr)
\* AddRecord putting the record before the ones already held under its key
AddToFront(records, rr) ==
    LET key == recordKey(rr.Name, rr.Type) IN
    [ k \in DOMAIN records \cup {key} |->
        IF k = key
        THEN << rr >> \o (IF key \in DOMAIN records THEN records[key] ELSE << >>)
        ELSE records[k] ]

AddTo(records, rr) ==
    LET key == recordKey(rr.Name, rr.Type) IN
    [ k \in DOMAIN records \cup {key} |->
        IF k = key
        THEN Append(IF key \in DOMAIN records THEN records[key] ELSE << >>, rr)
        ELSE records[k] ]

(***************************************************************************)
(* SpecZone: NewZone, then AddRecord and the read operations in any order. *)
(***************************************************************************)
\* the most records added to a zone
MaxRecords == 3

\* "b", "B", "" as declared origins
ZoneOrigins == { << 98 >>, << 66 >>, << >> }

\* records as they are added: owners "w.b", "W.B", "b" and "b:1"
ZoneRecs ==
    LET wb == << 119, 46, 98 >>
        WB == << 87, 46, 66 >>
        b  == << 98 >>
    IN { [ RR(wb, TypeA, V32(60)) EXCEPT !.Address = << 1, 2, 3, 4 >> ],
         [ RR(WB, TypeA, V32(3600)) EXCEPT !.Address = << 5, 6, 7, 8 >> ],
         [ RR(WB, TypeCNAME, V32(60)) EXCEPT !.Target = b ],
         [ RR(wb, TypeCNAME, V32(3600)) EXCEPT !.Target = << 120, 98 >> ],
         [ RR(<< 98, 58, 49 >>, TypeMX, V32(60)) EXCEPT !.Priority = 10, !.Target = wb ],
         [ RR(b, TypeSOA, V32(60)) EXCEPT !.SOAData = << TheSOA >> ] }

\* names asked for: "w.b", "W.b", "b", "xb", "", "b."
ZoneQueryNames ==
    { << 119, 46, 98 >>, << 87, 46, 98 >>, << 98 >>, << 120, 98 >>, << >>, << 98, 46 >> }
ZoneQueryTypes == { TypeA, TypeAAAA, TypeCNAME, TypeMX }

ZoneInit ==
    /\ \E origin \in ZoneOrigins : zName = ToLower(origin)
    /\ zRecords = << >> /\ zSOA = << >> /\ zAdded = << >> /\ zOut = [ op |-> "none" ]
    /\ ParseOff /\ CodecOff /\ FindOff /\ ServerOff /\ LoaderOff /\ ShutdownOff

AddRecord(rr) ==
    /\ Len(zAdded) < MaxRecords
    /\ zRecords' = AddTo(zRecords, rr)
    /\ zSOA' = IF rr.Type = TypeSOA /\ rr.SOAData # << >> THEN rr.SOAData ELSE zSOA
    /\ zAdded' = Append(zAdded, rr)
    /\ zOut' = [ op |-> "none" ]
    /\ UNCHANGED << zName, parseVars, codecVars, findVars, serverVars, loaderVars, shutdownVars >>

DoLookup(name, qtype) ==
    /\ zOut' = [ op |-> "Lookup", name |-> name, qtype |-> qtype,
                 res |-> Lookup(zRecords, name, qtype) ]
    /\ UNCHANGED << zName, zRecords, zSOA, zAdded, parseVars, codecVars, findVars, serverVars, loaderVars, shutdownVars >>

DoHasName(name) ==
    /\ zOut' = [ op |-> "HasName", name |-> name, res |-> HasName(zRecords, name) ]
    /\ UNCHANGED << zName, zRecords, zSOA, zAdded, parseVars, codecVars, findVars, serverVars, loaderVars, shutdownVars >>

DoIsAuthoritative(name) ==
    /\ zOut' = [ op |-> "IsAuthoritative", name |-> name, res |-> IsAuthoritative(zName, name) ]
    /\ UNCHANGED << zName, zRecords, zSOA, zAdded, parseVars, codecVars, findVars, serverVars, loaderVars, shutdownVars >>

ZoneNext ==
    \/ \E rr \in ZoneRecs : AddRecord(rr)
    \/ \E name \in ZoneQueryNames, qtype \in ZoneQueryTypes : DoLookup(name, qtype)
    \/ \E name \in ZoneQueryNames : DoHasName(name)
    \/ \E name \in ZoneQueryNames : DoIsAuthoritative(name)

SpecZone == ZoneInit /\ [][ZoneNext]_vars

\* every spelling of name that differs from it in letter case only
CaseVariants(name) ==
    { [ i \in 1..Len(name) |-> IF i \in up THEN ToUpperByte(name[i]) ELSE ToLowerByte(name[i]) ] :
        up \in SUBSET (1..Len(name)) }
SameName(a, b) == b \in CaseVariants(a)
Elems(list) == { list[i] : i \in 1..Len(list) }

\* the records added so far under a name, letter case apart, with a type, in the order added
AddedAt(name, type) ==
    LET Match(r) == SameName(r.Name, name) /\ r.Type = type IN SelectSeq(zAdded, Match)

\* C6: Lookup gives the same list for a name in every letter case, and a
\* record is found under its owner name in every letter case, whatever case
\* it was added with.
C6_LookupCaseInsensitive ==
    /\ zOut.op = "Lookup" =>
          \A v \in CaseVariants(zOut.name) : Lookup(zRecords, v, zOut.qtype) = zOut.res
    /\ \A i \in 1..Len(zAdded) : \A v \in CaseVariants(zAdded[i].Name) :
          zAdded[i] \in Elems(Lookup(zRecords, v, zAdded[i].Type))

\* a mixed-case lookup has found a record added in upper case
C6_Witness ==
    /\ zOut.op = "Lookup" /\ zOut.name = << 87, 46, 98 >>
    /\ \E r \in Elems(zOut.res) : r.Name = << 87, 46, 66 >> /\ r.Type = zOut.qtype

\* C7: with no record of the type asked for at the name, a lookup of type A
\* or AAAA gives exactly the CNAME records at the name; a direct record is
\* given without the CNAME; other types get no CNAME fallback.
C7_CnameFallback ==
    zOut.op = "Lookup" =>
        IF AddedAt(zOut.name, zOut.qtype) # << >>
        THEN zOut.res = AddedAt(zOut.name, zOut.qtype)
        ELSE IF zOut.qtype \in {TypeA, TypeAAAA}
        THEN zOut.res = AddedAt(zOut.name, TypeCNAME)
        ELSE zOut.res = << >>

\* a lookup of type AAAA at a name that has an A record and a CNAME has given the CNAME
C7_Witness ==
    /\ zOut.op = "Lookup" /\ zOut.qtype = TypeAAAA
    /\ AddedAt(zOut.name, TypeA) # << >>
    /\ zOut.res # << >> /\ \A r \in Elems(zOut.res) : r.Type = TypeCNAME

\* C8: IsAuthoritative(N) is true exactly when lowercase(N) is the origin or
\* is some prefix, a dot, and the origin.
C8_IsAuthoritative ==
    zOut.op = "IsAuthoritative" =>
        LET n == ToLower(zOut.name) IN
        zOut.res <=> ( n = zName \/ \E k \in 0..Len(n) : SubSeq(n, 1, k) \o Dot \o zName = n )

\* "W.b" has been found authoritative in the zone "b"
C8_Witness ==
    /\ zOut.op = "IsAuthoritative" /\ zName = << 98 >>
    /\ zOut.name = << 87, 46, 98 >> /\ zOut.res

\* C26: after any AddRecord calls, Lookup gives the records added under the
\* (case-folded name, type) key in the order added, none missing, duplicated or
\* reordered, and a repeated lookup gives the same list.
C26_InsertionOrder ==
    /\ \A i \in 1..Len(zAdded) :
           Lookup(zRecords, zAdded[i].Name, zAdded[i].Type) = AddedAt(zAdded[i].Name, zAdded[i].Type)
    /\ zOut.op = "Lookup" => Lookup(zRecords, zOut.name, zOut.qtype) = zOut.res
\* a lookup has given two records of one key, the one added in upper case first
C26_Witness ==
    /\ zOut.op = "Lookup" /\ Len(zOut.res) = 2
    /\ zOut.res[1].Name = << 87, 46, 66 >> /\ zOut.res[2].Name = << 119, 46, 98 >>
    /\ zOut.res[1].Type = TypeA /\ zOut.res[2].Type = TypeA

\* C29: HasName(N) is true exactly when the zone holds a record, of any type,
\* whose owner is N letter case apart, for every name, also one that holds a
\* colon or is a proper prefix of another owner.
C29_HasName ==
    zOut.op = "HasName" =>
        (zOut.res <=> \E i \in 1..Len(zAdded) : SameName(zAdded[i].Name, zOut.name))

(***************************************************************************)
(* Zone selection (cmd/dns-server/main.go).  The zones map is modelled by  *)
(* its key set: LoadZone stores each zone under its own Name, so the key   *)
(* names the zone.  probes records, in order, the keys the loop looked up. *)
(***************************************************************************)
splitLabels(name0) ==
    LET name == TrimSuffix(name0, Dot) IN
    IF name = << >> THEN << >> ELSE Split(name)

joinLabels(labels) == Join(labels)

NoZone(probes) == [ found |-> FALSE, zone |-> << >>, probes |-> probes ]

\* the loop of findZone from index i on (i counts from 1 here, from 0 in the code)
RECURSIVE findZoneLoop(_, _, _, _)
findZoneLoop(zones, labels, i, probes) ==
    IF i > Len(labels) THEN NoZone(probes)
    ELSE LET zoneName == joinLabels(SubSeq(labels, i, Len(labels))) IN
         IF zoneName \in zones
         THEN [ found |-> TRUE, zone |-> zoneName, probes |-> Append(probes, zoneName) ]
         ELSE findZoneLoop(zones, labels, i + 1, Append(probes, zoneName))

findZone(zones, name0) ==
    LET name == ToLower(name0)
        labels == splitLabels(name)
    IN findZoneLoop(zones, labels, 1, << >>)

(***************************************************************************)
(* SpecFindZone: zones are loaded and names are looked up, in any order.   *)
(***************************************************************************)
\* origins of the zone files loaded: "b", "w.b", "B", "c.b" and "" (a file with no $ORIGIN)
FindOrigins == { << 98 >>, << 119, 46, 98 >>, << 66 >>, << 99, 46, 98 >>, << >> }

\* names looked up: "W.b", "x.w.b", "b", "c", "", "w.b.", "xb", "w..b"
FindNames ==
    { << 87, 46, 98 >>, << 120, 46, 119, 46, 98 >>, << 98 >>, << 99 >>, << >>,
      << 119, 46, 98, 46 >>, << 120, 98 >>, << 119, 46, 46, 98 >> }

FindInit ==
    /\ fzones = {} /\ fOut = [ op |-> "none" ]
    /\ ParseOff /\ CodecOff /\ ZoneOff /\ ServerOff /\ LoaderOff /\ ShutdownOff

\* Server.LoadZone: s.zones[zone.Name] = zone, the name lowercased by NewZone
LoadZone(origin) ==
    /\ fzones' = fzones \cup { ToLower(origin) }
    /\ fOut' = [ op |-> "none" ]
    /\ UNCHANGED << parseVars, codecVars, zoneVars, serverVars, loaderVars, shutdownVars >>

DoFindZone(name) ==
    /\ fOut' = [ op |-> "findZone", name |-> name, res |-> findZone(fzones, name) ]
    /\ UNCHANGED << fzones, parseVars, codecVars, zoneVars, serverVars, loaderVars, shutdownVars >>

FindNext ==
    \/ \E origin \in FindOrigins : LoadZone(origin)
    \/ \E name \in FindNames : DoFindZone(name)

SpecFindZone == FindInit /\ [][FindNext]_vars

\* the suffixes of n that start right after one of its dots, longest first
DotSuffixes(n) ==
    LET IsDot(i) == n[i] = 46
        dots == SelectSeq([ i \in 1..Len(n) |-> i ], IsDot)
    IN [ k \in 1..Len(dots) |-> SubSeq(n, dots[k] + 1, Len(n)) ]

\* the zone found is the one of the first key of exp that hits, none if none hits
FirstHit(exp, res) ==
    LET hits == { k \in 1..Len(exp) : exp[k] \in fzones } IN
    IF hits = {} THEN ~res.found
    ELSE LET first == CHOOSE k \in hits : \A j \in hits : k <= j IN
         res.found /\ res.zone = exp[first]

\* C9: findZone gives the zone of the first hit among the lowercased name,
\* then each suffix left by dropping leading labels, ending with the last
\* label and finally the empty name; there is no zone only when none of
\* these is a key of the zones map.
C9_FindZoneProbes ==
    fOut.op = "findZone" =>
        LET n == ToLower(fOut.name) IN
        FirstHit(<< n >> \o DotSuffixes(n) \o << << >> >>, fOut.res)

\* what the loop does: it looks up the name less one trailing dot, then its
\* suffixes down to the last label and no further; the empty name is never
\* looked up
FindZoneLongestSuffix ==
    fOut.op = "findZone" =>
        LET n == TrimSuffix(ToLower(fOut.name), Dot)
            exp == IF n = << >> THEN << >> ELSE << n >> \o DotSuffixes(n)
        IN /\ FirstHit(exp, fOut.res)
           /\ fOut.res.probes = IF fOut.res.found
                                THEN SubSeq(exp, 1, CHOOSE k \in 1..Len(exp) : exp[k] = fOut.res.zone)
                                ELSE exp

(***************************************************************************)
(* The server (cmd/dns-server/main.go).  serveUDP starts one goroutine per *)
(* datagram; all of them call the one Builder of the Server, without a     *)
(* lock.  The Builder is its slice b.data: bArr is the backing array and   *)
(* bLen the length of the slice.  b.data = b.data[:0] sets the length to 0 *)
(* and keeps the array; an append writes at the length and adds to it; the *)
(* slice a build returns is the same array with the length at the return.  *)
(* The goroutines interleave between any two of these steps; one write     *)
(* method (writeHeader, writeQuestion, writeResourceRecord) is taken as    *)
(* one append.  The array holds 512 bytes and no run here reaches that.    *)
(***************************************************************************)
\* handleQuery from the parse result to the call of the Builder: the counter
\* it increments, the zone, the records and the call.  A Parse that does not
\* return (stack overflow, or a failed bounds check) ends the process: count
\* is "fatal".
dispatch(zones, r) ==
    IF r.st \in {"overflow", "panic"}
    THEN [ count |-> "fatal", zone |-> NoZone(<< >>), records |-> << >>, call |-> NoCall ]
    ELSE IF r.st # "ok"
    THEN [ count |-> "errors", zone |-> NoZone(<< >>), records |-> << >>, call |-> NoCall ]
    ELSE IF Len(r.msg.Questions) = 0
    THEN [ count |-> "none", zone |-> NoZone(<< >>), records |-> << >>, call |-> NoCall ]
    ELSE LET q == r.msg.Questions[1]
             zone == findZone(DOMAIN zones, q.Name)
         IN IF ~zone.found
            THEN [ count |-> "none", zone |-> zone, records |-> << >>,
                   call |-> [ fn |-> "BuildErrorResponse", rcode |-> RcodeRefused ] ]
            ELSE LET records == Lookup(zones[zone.zone], q.Name, q.Type) IN
                 IF Len(records) = 0 /\ ~HasName(zones[zone.zone], q.Name)
                 THEN [ count |-> "nxdomain", zone |-> zone, records |-> records,
                        call |-> [ fn |-> "BuildErrorResponse", rcode |-> RcodeNameError ] ]
                 ELSE [ count |-> "answers", zone |-> zone, records |-> records,
                        call |-> [ fn |-> "BuildResponse",
                                   ns |-> Lookup(zones[zone.zone], zone.zone, TypeNS) ] ]

\* the appends of a build, in order: the header, each question, each record
buildWrites(query, records, call) ==
    LET qs == [ i \in 1..Len(query.Questions) |-> writeQuestion(query.Questions[i]) ] IN
    IF call.fn = "BuildErrorResponse"
    THEN << writeHeader(errorHeader(query, call.rcode)) >> \o qs
    ELSE << writeHeader(responseHeader(query, records, call.ns)) >> \o qs
            \o [ i \in 1..Len(records) |-> writeResourceRecord(records[i]) ]
            \o [ i \in 1..Len(call.ns) |-> writeResourceRecord(call.ns[i]) ]

\* the backing array after append(b.data, chunk...) with len(b.data) = at
appendAt(arr, at, chunk) ==
    LET n == IF at + Len(chunk) > Len(arr) THEN at + Len(chunk) ELSE Len(arr) IN
    [ i \in 1..n |-> IF i > at /\ i <= at + Len(chunk) THEN chunk[i - at] ELSE arr[i] ]

(***************************************************************************)
(* SpecServer: one zone loaded, then up to MaxHandlers datagrams received, *)
(* each handled by its own goroutine, in any interleaving.                 *)
(***************************************************************************)
\* the most datagrams received, one handler goroutine each
MaxHandlers == 2

Handlers == 1..MaxHandlers

\* the zone "b": w.b A 1.2.3.4 and b NS ns.b
ServerZones ==
    LET b == << 98 >>
        a == [ RR(<< 119, 46, 98 >>, TypeA, V32(60)) EXCEPT !.Address = << 1, 2, 3, 4 >> ]
        ns == [ RR(b, TypeNS, V32(60)) EXCEPT !.Target = << 110, 115, 46, 98 >> ]
    IN [ name \in { b } |-> AddTo(AddTo(<< >>, a), ns) ]

\* a query datagram with one question
QueryDatagram(id, flags, name, qtype) ==
    U16(id) \o U16(flags) \o U16(1) \o U16(0) \o U16(0) \o U16(0) \o name \o U16(qtype) \o U16(ClassIN)

\* w.b A (answered), w.b MX (no data), x.b A (no such name), c A (no zone),
\* a header with no question, five bytes that do not parse, and a question
\* whose name is a compression pointer to itself
ServerDatagrams ==
    { QueryDatagram(1, FlagRD, << 1, 119, 1, 98, 0 >>, TypeA),
      QueryDatagram(2, 0, << 1, 119, 1, 98, 0 >>, TypeMX),
      QueryDatagram(3, 0, << 1, 120, 1, 98, 0 >>, TypeA),
      QueryDatagram(4, FlagRD, << 1, 99, 0 >>, TypeA),
      Hdr(0, 0, 0, 0),
      << 0, 5, 1, 0, 0 >>,
      Hdr(1, 0, 0, 0) \o << 192, 12 >> }

Pc(p) == [ at |-> p, k |-> 0 ]

ServerInit ==
    /\ szones = ServerZones
    /\ hpc = [ h \in Handlers |-> Pc("idle") ]
    /\ hdata = [ h \in Handlers |-> << >> ]
    /\ hquery = [ h \in Handlers |-> NoResult ]
    /\ hzone = [ h \in Handlers |-> NoZone(<< >>) ]
    /\ hrecords = [ h \in Handlers |-> << >> ]
    /\ hcall = [ h \in Handlers |-> NoCall ]
    /\ hresp = [ h \in Handlers |-> -1 ]
    /\ hsent = [ h \in Handlers |-> << >> ]
    /\ bArr = << >> /\ bLen = 0
    /\ queries = 0 /\ answers = 0 /\ nxdomain = 0 /\ errors = 0
    /\ ParseOff /\ CodecOff /\ ZoneOff /\ FindOff /\ LoaderOff /\ ShutdownOff

\* the process runs: no handler has ended it with a fatal error
Running == \A h \in Handlers : hpc[h].at # "fatal"

\* a handler that does not count the query
ReceiveUncounted(h, data) ==
    /\ Running
    /\ hpc[h].at = "idle"
    /\ \A g \in Handlers : g < h => hpc[g].at # "idle"
    /\ hdata' = [ hdata EXCEPT ![h] = data ]
    /\ hquery' = [ hquery EXCEPT ![h] = Parse(data) ]
    /\ hpc' = [ hpc EXCEPT ![h] = Pc("parsed") ]
    /\ UNCHANGED << szones, hzone, hrecords, hcall, hresp, hsent, bArr, bLen,
                    queries, answers, nxdomain, errors >>
    /\ UNCHANGED << parseVars, codecVars, zoneVars, findVars, loaderVars, shutdownVars >>

\* serveUDP reads a datagram and starts its handler, which counts the query
\* and parses it; handlers are started in the order of their numbers
Receive(h, data) ==
    /\ Running
    /\ hpc[h].at = "idle"
    /\ \A g \in Handlers : g < h => hpc[g].at # "idle"
    /\ queries' = queries + 1
    /\ hdata' = [ hdata EXCEPT ![h] = data ]
    /\ hquery' = [ hquery EXCEPT ![h] = Parse(data) ]
    /\ hpc' = [ hpc EXCEPT ![h] = Pc("parsed") ]
    /\ UNCHANGED << szones, hzone, hrecords, hcall, hresp, hsent, bArr, bLen,
                    answers, nxdomain, errors >>
    /\ UNCHANGED << parseVars, codecVars, zoneVars, findVars, loaderVars, shutdownVars >>

\* handleQuery from the parse error check to the call of the Builder
Dispatch(h) ==
    /\ Running
    /\ hpc[h].at = "parsed"
    /\ LET d == dispatch(szones, hquery[h]) IN
       /\ errors' = IF d.count = "errors" THEN errors + 1 ELSE errors
       /\ nxdomain' = IF d.count = "nxdomain" THEN nxdomain + 1 ELSE nxdomain
       /\ answers' = IF d.count = "answers" THEN answers + 1 ELSE answers
       /\ hzone' = [ hzone EXCEPT ![h] = d.zone ]
       /\ hrecords' = [ hrecords EXCEPT ![h] = d.records ]
       /\ hcall' = [ hcall EXCEPT ![h] = d.call ]
       /\ hpc' = [ hpc EXCEPT ![h] = IF d.count = "fatal" THEN Pc("fatal")
                                      ELSE IF d.call = NoCall THEN Pc("done")
                                      ELSE Pc("reset") ]
    /\ UNCHANGED << szones, hdata, hquery, hresp, hsent, bArr, bLen, queries >>
    /\ UNCHANGED << parseVars, codecVars, zoneVars, findVars, loaderVars, shutdownVars >>

\* b.data = b.data[:0]
BuildReset(h) ==
    /\ Running
    /\ hpc[h].at = "reset"
    /\ bLen' = 0
    /\ hpc' = [ hpc EXCEPT ![h] = [ at |-> "write", k |-> 1 ] ]
    /\ UNCHANGED << szones, hdata, hquery, hzone, hrecords, hcall, hresp, hsent, bArr,
                    queries, answers, nxdomain, errors >>
    /\ UNCHANGED << parseVars, codecVars, zoneVars, findVars, loaderVars, shutdownVars >>

\* the next write method of the build appends to b.data
BuildWrite(h) ==
    LET writes == buildWrites(hquery[h].msg, hrecords[h], hcall[h]) IN
    /\ Running
    /\ hpc[h].at = "write" /\ hpc[h].k <= Len(writes)
    /\ bArr' = appendAt(bArr, bLen, writes[hpc[h].k])
    /\ bLen' = bLen + Len(writes[hpc[h].k])
    /\ hpc' = [ hpc EXCEPT ![h] = [ at |-> "write", k |-> hpc[h].k + 1 ] ]
    /\ UNCHANGED << szones, hdata, hquery, hzone, hrecords, hcall, hresp, hsent,
                    queries, answers, nxdomain, errors >>
    /\ UNCHANGED << parseVars, codecVars, zoneVars, findVars, loaderVars, shutdownVars >>

\* return b.data: the response is the Builder's array with the length of now
BuildReturn(h) ==
    /\ Running
    /\ hpc[h].at = "write"
    /\ hpc[h].k > Len(buildWrites(hquery[h].msg, hrecords[h], hcall[h]))
    /\ hresp' = [ hresp EXCEPT ![h] = bLen ]
    /\ hpc' = [ hpc EXCEPT ![h] = Pc("send") ]
    /\ UNCHANGED << szones, hdata, hquery, hzone, hrecords, hcall, hsent, bArr, bLen,
                    queries, answers, nxdomain, errors >>
    /\ UNCHANGED << parseVars, codecVars, zoneVars, findVars, loaderVars, shutdownVars >>

\* conn.WriteToUDP(response, clientAddr) reads the array as it is now
Send(h) ==
    /\ Running
    /\ hpc[h].at = "send"
    /\ hsent' = [ hsent EXCEPT ![h] = Append(hsent[h], SubSeq(bArr, 1, hresp[h])) ]
    /\ hpc' = [ hpc EXCEPT ![h] = Pc("done") ]
    /\ UNCHANGED << szones, hdata, hquery, hzone, hrecords, hcall, hresp, bArr, bLen,
                    queries, answers, nxdomain, errors >>
    /\ UNCHANGED << parseVars, codecVars, zoneVars, findVars, loaderVars, shutdownVars >>

ServerNext ==
    \/ \E h \in Handlers, data \in ServerDatagrams : Receive(h, data)
    \/ \E h \in Handlers : Dispatch(h)
    \/ \E h \in Handlers : BuildReset(h)
    \/ \E h \in Handlers : BuildWrite(h)
    \/ \E h \in Handlers : BuildReturn(h)
    \/ \E h \in Handlers : Send(h)

SpecServer == ServerInit /\ [][ServerNext]_vars

\* the response a handler's call of the Builder gives when it runs alone
ownResponse(h) ==
    IF hcall[h].fn = "BuildErrorResponse"
    THEN BuildErrorResponse(hquery[h].msg, hcall[h].rcode)
    ELSE BuildResponse(hquery[h].msg, hrecords[h], hcall[h].ns)

\* C2: in every interleaving of the handlers, what a handler has sent is
\* the response built from its own query and records, byte for byte.
C2_OwnResponseSent ==
    \A h \in Handlers :
        hpc[h].at = "done" /\ hcall[h] # NoCall => hsent[h] = << ownResponse(h) >>

\* handler h has handled a query whose first question is in no loaded zone
NoZoneFor(h) ==
    /\ hpc[h].at = "done" /\ hquery[h].st = "ok"
    /\ Len(hquery[h].msg.Questions) > 0
    /\ ~findZone(DOMAIN szones, hquery[h].msg.Questions[1].Name).found

\* C10: for a question in no loaded zone the handler sends one response,
\* with RCODE 5, the question echoed and no answer or authority record, and
\* leaves the answers, nxdomain and errors counters as they are.
C10_RefusedResponse ==
    /\ \A h \in Handlers : NoZoneFor(h) =>
          /\ Len(hsent[h]) = 1
          /\ LET back == Parse(hsent[h][1]) IN
             /\ back.st = "ok"
             /\ back.msg.Header.Flags % 16 = RcodeRefused
             /\ back.msg.Header.ID = hquery[h].msg.Header.ID
             /\ back.msg.Questions = hquery[h].msg.Questions
             /\ back.msg.Answers = << >> /\ back.msg.Authority = << >>
    /\ (\A h \in Handlers : hpc[h].at # "idle" => NoZoneFor(h)) =>
          answers = 0 /\ nxdomain = 0 /\ errors = 0

(***************************************************************************)
(* SpecCounters: the handlers of SpecServer with the call of the Builder   *)
(* and the send taken as one step, Respond.  The steps of a build and the  *)
(* send neither read nor write a counter, so the counters go through the   *)
(* same values as under SpecServer.                                        *)
(***************************************************************************)
RECURSIVE Concat(_)
Concat(chunks) == IF chunks = << >> THEN << >> ELSE Head(chunks) \o Concat(Tail(chunks))

\* handleQuery from the call of the Builder to conn.WriteToUDP, with the
\* bytes the build appends
RespondWith(h, bytes) ==
    /\ Running
    /\ hpc[h].at = "reset"
    /\ bArr' = appendAt(bArr, 0, bytes)
    /\ bLen' = Len(bytes)
    /\ hresp' = [ hresp EXCEPT ![h] = Len(bytes) ]
    /\ hsent' = [ hsent EXCEPT ![h] = Append(hsent[h], bytes) ]
    /\ hpc' = [ hpc EXCEPT ![h] = Pc("done") ]
    /\ UNCHANGED << szones, hdata, hquery, hzone, hrecords, hcall,
                    queries, answers, nxdomain, errors >>
    /\ UNCHANGED << parseVars, codecVars, zoneVars, findVars, loaderVars, shutdownVars >>
Respond(h) ==
    /\ hpc[h].at = "reset"
    /\ RespondWith(h, Concat(buildWrites(hquery[h].msg, hrecords[h], hcall[h])))

CountersNext ==
    \/ \E h \in Handlers, data \in ServerDatagrams : Receive(h, data)
    \/ \E h \in Handlers : Dispatch(h)
    \/ \E h \in Handlers : Respond(h)

SpecCounters == ServerInit /\ [][CountersNext]_vars

\* the handlers that have counted their query, and those that have gone past
\* the counting of the outcome
Counted == { h \in Handlers : hpc[h].at # "idle" }
Settled == { h \in Handlers : hpc[h].at \notin { "idle", "parsed" } }
\* one step: no counter decreases, queries goes up exactly when a handler
\* takes a datagram and before its parse is looked at, and a handler that
\* settles adds one to at most one of the three other counters
CounterStep ==
    /\ queries' = queries + Cardinality({ h \in Handlers : hpc[h].at = "idle" /\ hpc'[h].at # "idle" })
    /\ answers' \in { answers, answers + 1 }
    /\ nxdomain' \in { nxdomain, nxdomain + 1 }
    /\ errors' \in { errors, errors + 1 }
    /\ (answers' + nxdomain' + errors') - (answers + nxdomain + errors)
           <= Cardinality({ h \in Handlers : hpc[h].at = "parsed" /\ hpc'[h].at # "parsed" })
    /\ Cardinality({ h \in Handlers : hpc[h] # hpc'[h] }) <= 1
CounterState ==
    /\ queries = Cardinality(Counted)
    /\ answers + nxdomain + errors <= Cardinality(Settled)
    /\ answers + nxdomain + errors <= queries

\* C39: under any interleaving of handlers each of the counters queries,
\* answers, nxdomain and errors never decreases and answers + nxdomain +
\* errors <= queries; every handled datagram adds one to queries exactly
\* once, before it is parsed, and adds one to at most one of the other three.
C39_Counters == [](CounterState) /\ [][CounterStep]_vars
\* two datagrams handled, one answered and one for a name that does not exist
C39_Witness ==
    /\ queries = 2 /\ answers = 1 /\ nxdomain = 1 /\ errors = 0
    /\ \A h \in 1..2 : hpc[h].at = "done"

(***************************************************************************)
(* What a handler owes its client, stated from the query and the zone.     *)
(***************************************************************************)
\* handler h has passed the dispatch
Past(h) == hpc[h].at \notin {"idle", "parsed"}
\* its datagram parsed and has a question
Asked(h) == hquery[h].st = "ok" /\ Len(hquery[h].msg.Questions) > 0
FirstQuestion(h) == hquery[h].msg.Questions[1]
ZoneFor(h) == findZone(DOMAIN szones, FirstQuestion(h).Name)
RecordsFor(h) == szones[ZoneFor(h).zone]
\* some record of the zone is owned by name, letter case apart
OwnsName(records, name) ==
    \E k \in DOMAIN records : \E i \in 1..Len(records[k]) :
        ToLower(records[k][i].Name) = ToLower(name)

NxdomainCase(h) ==
    /\ Asked(h) /\ ZoneFor(h).found
    /\ Lookup(RecordsFor(h), FirstQuestion(h).Name, FirstQuestion(h).Type) = << >>
    /\ ~OwnsName(RecordsFor(h), FirstQuestion(h).Name)
NoDataCase(h) ==
    /\ Asked(h) /\ ZoneFor(h).found
    /\ Lookup(RecordsFor(h), FirstQuestion(h).Name, FirstQuestion(h).Type) = << >>
    /\ OwnsName(RecordsFor(h), FirstQuestion(h).Name)
AnswerCase(h) ==
    /\ Asked(h) /\ ZoneFor(h).found
    /\ Lookup(RecordsFor(h), FirstQuestion(h).Name, FirstQuestion(h).Type) # << >>

\* the one datagram handler h has sent, parsed
Reply(h) == Parse(hsent[h][1])
Rcode(flags) == flags % 16
Started == { h \in Handlers : hpc[h].at # "idle" }
PastDispatch == { h \in Handlers : Past(h) }

\* the record got, parsed from a response, is the zone's record rr
SameRecord(rr, got) ==
    /\ got.Name = rr.Name /\ got.Type = rr.Type /\ got.Class = rr.Class /\ got.TTL = rr.TTL
    /\ SamePayload(rr, got)
SameRecords(rrs, gots) ==
    Len(gots) = Len(rrs) /\ \A i \in 1..Len(rrs) : SameRecord(rrs[i], gots[i])

\* C11: a zone is found, the lookup is empty and the zone has no record at
\* the name: the handler sends one response, with RCODE 3 and no answers,
\* and adds one to nxdomain and nothing to answers.
C11_NxdomainResponse ==
    /\ \A h \in Handlers : hpc[h].at = "done" /\ NxdomainCase(h) =>
          /\ Len(hsent[h]) = 1
          /\ Reply(h).st = "ok"
          /\ Rcode(Reply(h).msg.Header.Flags) = RcodeNameError
          /\ Reply(h).msg.Answers = << >>
    /\ (\A h \in Started : NxdomainCase(h)) =>
          nxdomain = Cardinality(PastDispatch) /\ answers = 0

\* C12: the name is in the zone but has no record of the type asked for and
\* no CNAME to fall back on: the handler sends a response with RCODE 0 and
\* an empty answer section, and adds one to answers and nothing to nxdomain.
C12_NoDataResponse ==
    /\ \A h \in Handlers : hpc[h].at = "done" /\ NoDataCase(h) =>
          /\ Len(hsent[h]) = 1
          /\ Reply(h).st = "ok"
          /\ Rcode(Reply(h).msg.Header.Flags) = RcodeNoError
          /\ Reply(h).msg.Answers = << >>
    /\ (\A h \in Started : NoDataCase(h)) =>
          answers = Cardinality(PastDispatch) /\ nxdomain = 0

\* C13: the lookup is not empty: the response has RCODE 0, the records of
\* the lookup in their order as its answers, the NS records at the zone's
\* origin as its authority and no additional record; answers grows by one.
C13_AnswerResponse ==
    /\ \A h \in Handlers : hpc[h].at = "done" /\ AnswerCase(h) =>
          /\ Len(hsent[h]) = 1
          /\ Reply(h).st = "ok"
          /\ Rcode(Reply(h).msg.Header.Flags) = RcodeNoError
          /\ SameRecords(Lookup(RecordsFor(h), FirstQuestion(h).Name, FirstQuestion(h).Type),
                         Reply(h).msg.Answers)
          /\ SameRecords(Lookup(RecordsFor(h), ZoneFor(h).zone, TypeNS), Reply(h).msg.Authority)
          /\ Reply(h).msg.Additional = << >>
    /\ (\A h \in Started : AnswerCase(h)) =>
          answers = Cardinality(PastDispatch) /\ nxdomain = 0

\* C14: a datagram that does not parse adds one to errors, gets no reply and
\* causes no zone lookup; a datagram with no question gets no reply either.
C14_ParseFailure ==
    /\ \A h \in Handlers : Past(h) /\ hquery[h].st # "ok" =>
          hsent[h] = << >> /\ hzone[h].probes = << >> /\ hrecords[h] = << >>
    /\ errors = Cardinality({ h \in Handlers : Past(h) /\ hquery[h].st # "ok" })
    /\ \A h \in Handlers : Past(h) /\ hquery[h].st = "ok" /\ ~Asked(h) => hsent[h] = << >>

\* C15: every datagram sent has QR and AA set, RA and TC clear and opcode 0
\* in its flags, and the ID of the query it answers.
C15_ResponseFlags ==
    \A h \in Handlers : \A i \in 1..Len(hsent[h]) :
        LET d == hsent[h][i] IN
        /\ Len(d) >= 12
        /\ BE(d, 0, 2) = hquery[h].msg.Header.ID
        /\ HasFlag(BE(d, 2, 4), FlagQR) /\ HasFlag(BE(d, 2, 4), FlagAA)
        /\ ~HasFlag(BE(d, 2, 4), FlagRA) /\ ~HasFlag(BE(d, 2, 4), FlagTC)
        /\ (BE(d, 2, 4) \div 2048) % 16 = 0


(***************************************************************************)
(* Durations of the zone file (dns/zone.go): strconv.ParseUint and         *)
(* parseTTL.  A uint32 result is held as its two 16-bit halves.            *)
(***************************************************************************)
IsDigit(b) == b >= 48 /\ b <= 57

\* strconv.ParseUint(s, 10, bitSize) for bitSize 16 and 32: n is the value read
\* so far; a byte that is no digit is a syntax error, a value that does not fit
\* bitSize bits a range error; the value beside an error is 0 or the largest one
RECURSIVE parseUintLoop(_, _, _, _)
parseUintLoop(s, i, n, bitSize) ==
    IF i > Len(s) THEN [ st |-> "ok", val |-> n ]
    ELSE IF ~IsDigit(s[i]) THEN [ st |-> "err", err |-> "syntax", val |-> << 0, 0 >> ]
    ELSE LET lo == n[2] * 10 + (s[i] - 48)
             hi == n[1] * 10 + lo \div 65536
         IN IF hi > 65535 \/ (bitSize = 16 /\ (hi > 0))
            THEN [ st |-> "err", err |-> "range",
                   val |-> IF bitSize = 16 THEN << 0, 65535 >> ELSE << 65535, 65535 >> ]
            ELSE parseUintLoop(s, i + 1, << hi, lo % 65536 >>, bitSize)

ParseUint(s, bitSize) ==
    IF s = << >> THEN [ st |-> "err", err |-> "syntax", val |-> << 0, 0 >> ]
    ELSE parseUintLoop(s, 1, << 0, 0 >>, bitSize)

\* the product of two uint16 as a uint32
Mul16(x, y) ==
    LET p0  == x * (y % 256)
        p1  == x * (y \div 256)
        low == (p1 % 256) * 256 + p0
    IN << (p1 \div 256 + low \div 65536) % 65536, low % 65536 >>

\* uint32(a) * uint32(b), which Go computes modulo 2^32
Mul32(a, b) ==
    LET ll == Mul16(a[2], b[2])
    IN << (ll[1] + Mul16(a[1], b[2])[2] + Mul16(a[2], b[1])[2]) % 65536, ll[2] >>

\* the multiplier parseTTL chooses for the lowercased token, 0 when the token
\* ends in none of w, d, h, m, s
suffixMultiplier(s) ==
    IF HasSuffix(s, << 119 >>) THEN 604800
    ELSE IF HasSuffix(s, << 100 >>) THEN 86400
    ELSE IF HasSuffix(s, << 104 >>) THEN 3600
    ELSE IF HasSuffix(s, << 109 >>) THEN 60
    ELSE IF HasSuffix(s, << 115 >>) THEN 1
    ELSE 0

dropLast(s) == SubSeq(s, 1, Len(s) - 1)

\* the value of a short string of digits
RECURSIVE Number(_)
Number(d) == IF d = << >> THEN 0 ELSE Number(dropLast(d)) * 10 + (d[Len(d)] - 48)

ttlOf(r, multiplier) ==
    IF r.st = "err" THEN [ st |-> "err", val |-> << 0, 0 >> ]
    ELSE [ st |-> "ok", val |-> Mul32(r.val, V32(multiplier)) ]

parseTTL(tok) ==
    LET s == ToLower(tok)
        m == suffixMultiplier(s)
    IN IF m = 0 THEN ttlOf(ParseUint(s, 32), 1)
       ELSE ttlOf(ParseUint(dropLast(s), 32), m)

isTTL(s) == parseTTL(s).st = "ok"

(***************************************************************************)
(* Specification SpecTTL: parseTTL applied to one token.                   *)
(***************************************************************************)
MaxDigits == 4
TTLDigits == { 48, 49, 50, 51, 54, 55 }
RECURSIVE DigitStrings(_)
DigitStrings(n) ==
    IF n = 0 THEN { << >> }
    ELSE LET shorter == DigitStrings(n - 1)
         IN shorter \cup { d \o << c >> : d \in { x \in shorter : Len(x) = n - 1 }, c \in TTLDigits }
\* no suffix, the five units in either case, and three tails that are no unit
TTLSuffixes ==
    { << >>, << 115 >>, << 109 >>, << 104 >>, << 100 >>, << 119 >>,
      << 83 >>, << 77 >>, << 72 >>, << 68 >>, << 87 >>,
      << 120 >>, << 104, 104 >>, << 46, 53 >> }
\* the largest uint32, the number after it, and two signed numbers
TTLExtremes ==
    { << 52, 50, 57, 52, 57, 54, 55, 50, 57, 53 >>, << 52, 50, 57, 52, 57, 54, 55, 50, 57, 54 >>,
      << 43, 49 >>, << 45, 49 >> }
TTLTokens == { d \o x : d \in DigitStrings(MaxDigits), x \in TTLSuffixes } \cup TTLExtremes

TTLInit ==
    /\ tin \in TTLTokens /\ tout = NoResult /\ tpc = "start"
    /\ lfile = << >> /\ lres = NoResult /\ lpc = "off"
    /\ ParseOff /\ CodecOff /\ ZoneOff /\ FindOff /\ ServerOff /\ ShutdownOff

DoParseTTL ==
    /\ tpc = "start"
    /\ tout' = parseTTL(tin)
    /\ tpc' = "done"
    /\ UNCHANGED << tin, loadVars, parseVars, codecVars, zoneVars, findVars, serverVars, shutdownVars >>

TTLNext == DoParseTTL
SpecTTL == TTLInit /\ [][TTLNext]_vars

\* the digits a token starts with, and what follows them
LeadDigits(tok) ==
    LET NoDigit(i) == ~IsDigit(tok[i])
        stops == SelectSeq([ i \in 1..Len(tok) |-> i ], NoDigit) \o << Len(tok) + 1 >>
    IN SubSeq(tok, 1, stops[1] - 1)
Unit(tok) == ToLower(SubSeq(tok, Len(LeadDigits(tok)) + 1, Len(tok)))
\* the decimal digits of a uint32, and a digit string without its leading zeros
RECURSIVE Decimal(_)
Decimal(v) ==
    LET r == v[1] % 10
        q == << v[1] \div 10, (r * 65536 + v[2]) \div 10 >>
        d == (r * 65536 + v[2]) % 10
    IN IF q = << 0, 0 >> THEN << 48 + d >> ELSE Decimal(q) \o << 48 + d >>
RECURSIVE Canonical(_)
Canonical(d) == IF Len(d) > 1 /\ d[1] = 48 THEN Canonical(Tail(d)) ELSE d
UnitSeconds(u) ==
    CASE u = << 109 >> -> 60 [] u = << 104 >> -> 3600 [] u = << 100 >> -> 86400
      [] u = << 119 >> -> 604800 [] OTHER -> 1
\* the largest number whose product with the unit is a uint32
LargestFor(u) ==
    CASE u = << 109 >> -> 71582788 [] u = << 104 >> -> 1193046 [] u = << 100 >> -> 49710
      [] u = << 119 >> -> 7101
\* n times the (even) number of seconds, below 2^32
Times(n, secs) ==
    LET half == V32(n * (secs \div 2))
    IN << 2 * half[1] + (2 * half[2]) \div 65536, (2 * half[2]) % 65536 >>
ExpectedTTL(tok) ==
    LET d == LeadDigits(tok)
        u == Unit(tok)
    IN IF d = << >> \/ u \notin { << >>, << 115 >>, << 109 >>, << 104 >>, << 100 >>, << 119 >> }
       THEN tout.st = "err"
       ELSE IF u \in { << >>, << 115 >> }
       THEN tout.st = "ok" /\ Decimal(tout.val) = Canonical(d)
       ELSE /\ tout.st = "ok"
            /\ Len(d) <= 8 /\ Number(d) <= LargestFor(u)
            /\ tout.val = Times(Number(d), UnitSeconds(u))

\* C18: parseTTL gives a bare number as seconds, a number followed by s, m, h, d
\* or w (either case) as the number times 1, 60, 3600, 86400 or 604800, and an
\* error for a token with no digits or with another suffix.
C18_ParseTTL == tpc = "done" => ExpectedTTL(tin)

\* the same for the durations whose seconds fit 32 bits
C18_ParseTTLInRange ==
    tpc = "done"
        /\ (LeadDigits(tin) # << >> /\ Unit(tin) \in { << 109 >>, << 104 >>, << 100 >>, << 119 >> }
               => Len(LeadDigits(tin)) <= 8 /\ Number(LeadDigits(tin)) <= LargestFor(Unit(tin)))
        /\ (LeadDigits(tin) # << >> /\ Unit(tin) \in { << >>, << 115 >> }
               => Len(Canonical(LeadDigits(tin))) <= 9 \/ tin = << 52, 50, 57, 52, 57, 54, 55, 50, 57, 53 >>)
    => ExpectedTTL(tin)

\* C37: whenever parseTTL returns a value for a number N with a suffix of
\* multiplier M the value is the integer N * M; a duration whose product does
\* not fit 32 unsigned bits is an error and is never returned modulo 2^32.
C37_ProductExact ==
    tpc = "done" /\ tout.st = "ok" =>
        IF Unit(tin) \in { << 109 >>, << 104 >>, << 100 >>, << 119 >> }
        THEN /\ Number(LeadDigits(tin)) <= LargestFor(Unit(tin))
             /\ tout.val = Times(Number(LeadDigits(tin)), UnitSeconds(Unit(tin)))
        ELSE Decimal(tout.val) = Canonical(LeadDigits(tin))


(***************************************************************************)
(* Zone-file loader (dns/zone.go): the string functions it uses,           *)
(* net.ParseIP, parseZoneLine and LoadZoneFile.  A file is the sequence of  *)
(* its lines.  net.ParseIP is modelled on dotted quads without leading      *)
(* zeros and on IPv6 text whose groups have at most four hex digits.        *)
(***************************************************************************)
IsSpace(b) == b \in { 9, 10, 11, 12, 13, 32 }

\* strings.TrimSpace
TrimSpace(s) ==
    LET Kept(i) == ~IsSpace(s[i])
        kept == SelectSeq([ i \in 1..Len(s) |-> i ], Kept)
    IN IF kept = << >> THEN << >> ELSE SubSeq(s, kept[1], kept[Len(kept)])

\* strings.Fields
Fields(s) ==
    LET Starts(i) == ~IsSpace(s[i]) /\ (i = 1 \/ IsSpace(s[i - 1]))
        Ends(i)   == ~IsSpace(s[i]) /\ (i = Len(s) \/ IsSpace(s[i + 1]))
        starts == SelectSeq([ i \in 1..Len(s) |-> i ], Starts)
        ends   == SelectSeq([ i \in 1..Len(s) |-> i ], Ends)
    IN [ k \in 1..Len(starts) |-> SubSeq(s, starts[k], ends[k]) ]

\* strings.Join(fields[from:], " ")  (from is the Go index)
RECURSIVE JoinFrom(_, _)
JoinFrom(fields, from) ==
    IF from >= Len(fields) THEN << >>
    ELSE IF from = Len(fields) - 1 THEN fields[from + 1]
    ELSE fields[from + 1] \o << 32 >> \o JoinFrom(fields, from + 1)

\* strings.Contains(s, string(c))
Contains(s, c) == \E i \in 1..Len(s) : s[i] = c

\* strings.Trim(s, "\"")
TrimQuotes(s) ==
    LET Kept(i) == s[i] # 34
        kept == SelectSeq([ i \in 1..Len(s) |-> i ], Kept)
    IN IF kept = << >> THEN << >> ELSE SubSeq(s, kept[1], kept[Len(kept)])

\* strings.Split(s, string(c))
SplitBy(s, c) ==
    LET IsCut(i) == s[i] = c
        cuts == << 0 >> \o SelectSeq([ i \in 1..Len(s) |-> i ], IsCut) \o << Len(s) + 1 >>
    IN [ k \in 1..(Len(cuts) - 1) |-> SubSeq(s, cuts[k] + 1, cuts[k + 1] - 1) ]

\* one decimal field of a dotted quad: its value, or -1
quadField(f) ==
    IF Len(f) \notin 1..3 \/ (\E i \in 1..Len(f) : ~IsDigit(f[i])) \/ (Len(f) > 1 /\ f[1] = 48)
    THEN -1
    ELSE IF Number(f) > 255 THEN -1 ELSE Number(f)

\* the four bytes of a dotted quad, or the empty sequence
parseIPv4(s) ==
    LET parts == SplitBy(s, 46)
    IN IF Len(parts) # 4 \/ (\E k \in 1..Len(parts) : quadField(parts[k]) = -1) THEN << >>
       ELSE [ k \in 1..4 |-> quadField(parts[k]) ]

IsHex(b) == IsDigit(b) \/ (b >= 97 /\ b <= 102) \/ (b >= 65 /\ b <= 70)
HexVal(b) == IF IsDigit(b) THEN b - 48 ELSE IF b >= 97 THEN b - 87 ELSE b - 55

\* the bytes of one group of IPv6 text: two for a hex group, four for a dotted
\* quad where one is allowed, none for anything else
groupBytes(g, quadAllowed) ==
    IF Len(g) \in 1..4 /\ (\A i \in 1..Len(g) : IsHex(g[i]))
    THEN LET v == [ i \in 1..4 |-> IF i <= 4 - Len(g) THEN 0 ELSE HexVal(g[i - (4 - Len(g))]) ]
         IN << v[1] * 16 + v[2], v[3] * 16 + v[4] >>
    ELSE IF quadAllowed THEN parseIPv4(g)
    ELSE << >>

\* the bytes of colon-separated groups; the empty text gives no byte, a group
\* that is no group makes the whole invalid
RECURSIVE groupsBytes(_, _)
groupsBytes(groups, i) ==
    IF i > Len(groups) THEN [ ok |-> TRUE, bytes |-> << >> ]
    ELSE LET b == groupBytes(groups[i], i = Len(groups))
             rest == groupsBytes(groups, i + 1)
         IN IF b = << >> \/ ~rest.ok THEN [ ok |-> FALSE, bytes |-> << >> ]
            ELSE [ ok |-> TRUE, bytes |-> b \o rest.bytes ]
sideBytes(text) ==
    IF text = << >> THEN [ ok |-> TRUE, bytes |-> << >> ] ELSE groupsBytes(SplitBy(text, 58), 1)

\* the sixteen bytes of IPv6 text with at most one "::", or the empty sequence
parseIPv6(s) ==
    LET IsEllipsis(i) == i < Len(s) /\ s[i] = 58 /\ s[i + 1] = 58
        at == SelectSeq([ i \in 1..Len(s) |-> i ], IsEllipsis)
    IN IF Len(at) > 1 THEN << >>
       ELSE IF Len(at) = 1
       THEN LET left  == sideBytes(SubSeq(s, 1, at[1] - 1))
                right == sideBytes(SubSeq(s, at[1] + 2, Len(s)))
                \* a dotted quad may end the text only
                quadLeft == Contains(SubSeq(s, 1, at[1] - 1), 46)
            IN IF ~left.ok \/ ~right.ok \/ quadLeft \/ Len(left.bytes) + Len(right.bytes) > 14
               THEN << >>
               ELSE left.bytes \o Rep(0, 16 - Len(left.bytes) - Len(right.bytes)) \o right.bytes
       ELSE LET all == sideBytes(s)
            IN IF all.ok /\ Len(all.bytes) = 16 THEN all.bytes ELSE << >>

\* net.ParseIP: the 16-byte form of the address, or the empty sequence (nil)
ParseIP(s) ==
    LET IsSep(i) == s[i] = 46 \/ s[i] = 58
        seps == SelectSeq([ i \in 1..Len(s) |-> i ], IsSep)
    IN IF seps = << >> THEN << >>
       ELSE IF s[seps[1]] = 46
       THEN (IF parseIPv4(s) = << >> THEN << >> ELSE V4Prefix \o parseIPv4(s))
       ELSE parseIPv6(s)

StringToType(s) ==
    CASE s = << 65 >> -> TypeA
      [] s = << 65, 65, 65, 65 >> -> TypeAAAA
      [] s = << 67, 78, 65, 77, 69 >> -> TypeCNAME
      [] s = << 77, 88 >> -> TypeMX
      [] s = << 78, 83 >> -> TypeNS
      [] s = << 84, 88, 84 >> -> TypeTXT
      [] s = << 83, 79, 65 >> -> TypeSOA
      [] OTHER -> 0

isClass(s) == ToUpper(s) = << 73, 78 >> \/ ToUpper(s) = << 67, 72 >>
isClassOrType(s) == isClass(s) \/ StringToType(ToUpper(s)) # 0

\* qualify giving the origin for every name without a trailing dot
qualifyAsOrigin(field, origin) ==
    IF ~HasSuffix(field, Dot) THEN origin ELSE TrimSuffix(field, Dot)
\* field + "." + origin, or the field without its trailing dot
qualify(field, origin) ==
    IF ~HasSuffix(field, Dot) THEN field \o Dot \o origin ELSE TrimSuffix(field, Dot)
\* also the code of parseZoneLine for the owner name and for the CNAME and NS target
normalizeSOAName(name, origin) == IF name = At THEN origin ELSE qualify(name, origin)

parseUint32(s) == ParseUint(s, 32).val

LineFail(rr, name, err) == [ st |-> "err", rr |-> rr, name |-> name, err |-> err ]
LineOk(rr, name) == [ st |-> "ok", rr |-> rr, name |-> name, err |-> "" ]

\* fields[i] for the Go index i
Field(fields, i) == fields[i + 1]

soaOf(fields, origin, idx) ==
    [ MName   |-> normalizeSOAName(Field(fields, idx), origin),
      RName   |-> normalizeSOAName(Field(fields, idx + 1), origin),
      Serial  |-> parseUint32(Field(fields, idx + 2)),
      Refresh |-> parseTTL(Field(fields, idx + 3)).val,
      Retry   |-> parseTTL(Field(fields, idx + 4)).val,
      Expire  |-> parseTTL(Field(fields, idx + 5)).val,
      Minimum |-> parseTTL(Field(fields, idx + 6)).val ]

\* parseZoneLine from "Parse RDATA" on: idx is the index of the first rdata field
zoneRData(fields, origin, rr, idx, ip, priority) ==
    IF rr.Type = TypeA
    THEN IF ip = << >> \/ To4(ip) = << >> THEN LineFail(rr, rr.Name, "invalid IPv4")
         ELSE LineOk([rr EXCEPT !.Address = To4(ip)], rr.Name)
    ELSE IF rr.Type = TypeAAAA
    THEN IF ip = << >> \/ To16(ip) = << >> \/ To4(ip) # << >> THEN LineFail(rr, rr.Name, "invalid IPv6")
         ELSE LineOk([rr EXCEPT !.Address = To16(ip)], rr.Name)
    ELSE IF rr.Type = TypeCNAME \/ rr.Type = TypeNS
    THEN LineOk([rr EXCEPT !.Target = normalizeSOAName(Field(fields, idx), origin)], rr.Name)
    ELSE IF rr.Type = TypeMX
    THEN IF idx + 1 >= Len(fields) THEN LineFail(rr, rr.Name, "MX needs priority and target")
         ELSE IF priority.st = "err" THEN LineFail(rr, rr.Name, "invalid MX priority")
         ELSE LineOk([rr EXCEPT !.Priority = priority.val[2],
                                !.Target = qualify(Field(fields, idx + 1), origin)], rr.Name)
    ELSE IF rr.Type = TypeTXT
    THEN LineOk([rr EXCEPT !.Text = << TrimQuotes(JoinFrom(fields, idx)) >>], rr.Name)
    ELSE IF Len(fields) >= idx + 7
    THEN LineOk([rr EXCEPT !.SOAData = << soaOf(fields, origin, idx) >>], rr.Name)
    ELSE LineOk(rr, rr.Name)

\* parseZoneLine from "Parse type" on: idx is the index after the optional class
zoneType(fields, origin, rr, idx) ==
    IF idx >= Len(fields) THEN LineFail(rr, rr.Name, "missing type")
    ELSE IF StringToType(ToUpper(Field(fields, idx))) = 0 THEN LineFail(rr, rr.Name, "unknown type")
    ELSE IF idx + 1 >= Len(fields)
    THEN LineFail([rr EXCEPT !.Type = StringToType(ToUpper(Field(fields, idx)))], rr.Name, "missing rdata")
    ELSE zoneRData(fields, origin, [rr EXCEPT !.Type = StringToType(ToUpper(Field(fields, idx)))],
                   idx + 1, ParseIP(JoinFrom(fields, idx + 1)), ParseUint(Field(fields, idx + 1), 16))

\* parseZoneLine from "Parse optional TTL" on
zoneTTLClass(fields, origin, rr, idx) ==
    IF idx < Len(fields) /\ isTTL(Field(fields, idx))
    THEN zoneType(fields, origin, [rr EXCEPT !.TTL = parseTTL(Field(fields, idx)).val],
                  IF idx + 1 < Len(fields) /\ isClass(Field(fields, idx + 1)) THEN idx + 2 ELSE idx + 1)
    ELSE zoneType(fields, origin, rr,
                  IF idx < Len(fields) /\ isClass(Field(fields, idx)) THEN idx + 1 ELSE idx)

zoneFields(fields, origin, currentName, defaultTTL) ==
    IF Len(fields) < 3 THEN LineFail(NoRR, << >>, "too few fields")
    ELSE IF ~isClassOrType(fields[1]) /\ ~isTTL(fields[1])
    THEN zoneTTLClass(fields, origin,
                      [ NoRR EXCEPT !.Name = normalizeSOAName(fields[1], origin),
                                    !.TTL = defaultTTL, !.Class = ClassIN ], 1)
    ELSE zoneTTLClass(fields, origin,
                      [ NoRR EXCEPT !.Name = currentName, !.TTL = defaultTTL, !.Class = ClassIN ], 0)

parseZoneLine(line, origin, currentName, defaultTTL) ==
    zoneFields(Fields(line), origin, currentName, defaultTTL)


NewZone(name) == [ Name |-> ToLower(name), Records |-> << >>, SOA |-> << >> ]

\* Zone.AddRecord on a zone value
addRecord(zone, rr) ==
    [ zone EXCEPT !.Records = AddTo(zone.Records, rr),
                  !.SOA = IF rr.Type = TypeSOA /\ rr.SOAData # << >> THEN rr.SOAData ELSE @ ]

\* the loop variables of LoadZoneFile: zone is empty for nil; skipping is set
\* inside the inner loop that reads up to a closing parenthesis; added is the
\* history of the lines whose record was added
LoadStart ==
    [ zone |-> << >>, origin |-> << >>, defaultTTL |-> V32(3600), currentName |-> << >>,
      skipping |-> FALSE, failed |-> FALSE, lineNum |-> 0, added |-> << >> ]

\* the body of the loop from the result of parseZoneLine on
loadRecord(st, r) ==
    IF r.st = "err" THEN st
    ELSE [ st EXCEPT !.currentName = IF r.name # << >> THEN r.name ELSE @,
                     !.zone = << addRecord(IF @ = << >> THEN NewZone(st.origin) ELSE @[1], r.rr) >>,
                     !.added = Append(@, st.lineNum) ]

loadTTL(st, ttl) ==
    IF ttl.st = "err" THEN [ st EXCEPT !.failed = TRUE ] ELSE [ st EXCEPT !.defaultTTL = ttl.val ]

loadOrigin(st, origin) ==
    [ st EXCEPT !.origin = origin, !.zone = IF @ = << >> THEN << NewZone(origin) >> ELSE @ ]

\* one line of the file: st.lineNum is already the number of this line
loadLine(st, text, line) ==
    IF st.skipping THEN [ st EXCEPT !.skipping = ~Contains(text, 41) ]
    ELSE IF line = << >> \/ HasPrefix(line, << 59 >>) THEN st
    ELSE IF HasPrefix(line, << 36, 79, 82, 73, 71, 73, 78 >>)      \* "$ORIGIN"
    THEN loadOrigin(st, TrimSuffix(TrimSpace(SubSeq(line, 8, Len(line))), Dot))
    ELSE IF HasPrefix(line, << 36, 84, 84, 76 >>)                  \* "$TTL"
    THEN loadTTL(st, parseTTL(TrimSpace(SubSeq(line, 5, Len(line)))))
    ELSE IF Contains(line, 40) THEN [ st EXCEPT !.skipping = TRUE ]
    ELSE loadRecord(st, parseZoneLine(line, st.origin, st.currentName, st.defaultTTL))

RECURSIVE loadLines(_, _, _)
loadLines(lines, i, st) ==
    IF i > Len(lines) \/ st.failed THEN st
    ELSE loadLines(lines, i + 1, loadLine([ st EXCEPT !.lineNum = i ], lines[i], TrimSpace(lines[i])))

\* LoadZoneFile on a file that opens and reads without an I/O error
loadResult(st) ==
    IF st.failed THEN [ st |-> "err", zone |-> << >>, added |-> st.added ]
    ELSE [ st |-> "ok", zone |-> st.zone, added |-> st.added ]
LoadZoneFile(lines) == loadResult(loadLines(lines, 1, LoadStart))


(***************************************************************************)
(* Specification SpecLoad: LoadZoneFile applied to one file.               *)
(***************************************************************************)
\* the most lines of a file after its first line
MaxLines == 2
\* $ORIGIN b.
OriginLine == << 36, 79, 82, 73, 71, 73, 78, 32, 98, 46 >>
\* $TTL 1h
TTLLine == << 36, 84, 84, 76, 32, 49, 104 >>
\* $TTL x
BadTTLLine == << 36, 84, 84, 76, 32, 120 >>
\* a comment and a line of blanks: "; c", "  "
CommentLine == << 59, 32, 99 >>
BlankLine == << 32, 32 >>
\* a record opened over several lines and the line that closes it: "@ SOA ns h (", " 1 2 3 4 5 )"
OpenLine == << 64, 32, 83, 79, 65, 32, 110, 115, 32, 104, 32, 40 >>
CloseLine == << 32, 49, 32, 50, 32, 51, 32, 52, 32, 53, 32, 41 >>
\* a record in parentheses on one line: "@ SOA ns h ( 1 2 3 4 5 )"
SameLine == << 64, 32, 83, 79, 65, 32, 110, 115, 32, 104, 32, 40, 32, 49, 32, 50, 32, 51, 32, 52, 32, 53, 32, 41 >>
\* a record without an owner name: "  IN A 1.2.3.5"
ContinuationLine == << 32, 32, 73, 78, 32, 65, 32, 49, 46, 50, 46, 51, 46, 53 >>
\* well-formed records: 'w A 1.2.3.4', '@ IN NS ns.b.', 'm 60 IN MX 10 m', 'w AAAA ::1', 't TXT "v=1"', '@ SOA ns h 1 2h 3 4 5', 'c CNAME @'
GoodLines ==
    { << 119, 32, 65, 32, 49, 46, 50, 46, 51, 46, 52 >>,
      << 64, 32, 73, 78, 32, 78, 83, 32, 110, 115, 46, 98, 46 >>,
      << 109, 32, 54, 48, 32, 73, 78, 32, 77, 88, 32, 49, 48, 32, 109 >>,
      << 119, 32, 65, 65, 65, 65, 32, 58, 58, 49 >>,
      << 116, 32, 84, 88, 84, 32, 34, 118, 61, 49, 34 >>,
      << 64, 32, 83, 79, 65, 32, 110, 115, 32, 104, 32, 49, 32, 50, 104, 32, 51, 32, 52, 32, 53 >>,
      << 99, 32, 67, 78, 65, 77, 69, 32, 64 >> }
\* too few fields: 'w A'
TooFewFields == { << 119, 32, 65 >> }
\* missing rdata: 'w IN A'
MissingRData == { << 119, 32, 73, 78, 32, 65 >> }
\* unknown type: 'w IN XX 1'
UnknownType == { << 119, 32, 73, 78, 32, 88, 88, 32, 49 >> }
\* invalid IPv4 address: 'w A 1.2.3', 'w A ::1'
InvalidIPv4 == { << 119, 32, 65, 32, 49, 46, 50, 46, 51 >>, << 119, 32, 65, 32, 58, 58, 49 >> }
\* invalid IPv6 address: 'w AAAA 1.2.3.4', 'w AAAA ::ffff:1.2.3.4'
InvalidIPv6 == { << 119, 32, 65, 65, 65, 65, 32, 49, 46, 50, 46, 51, 46, 52 >>, << 119, 32, 65, 65, 65, 65, 32, 58, 58, 102, 102, 102, 102, 58, 49, 46, 50, 46, 51, 46, 52 >> }
\* invalid MX preference: 'm MX x m', 'm MX 70000 m'
InvalidMX == { << 109, 32, 77, 88, 32, 120, 32, 109 >>, << 109, 32, 77, 88, 32, 55, 48, 48, 48, 48, 32, 109 >> }
\* SOA with fewer than seven rdata tokens: '@ SOA ns h 1'
ShortSOA == { << 64, 32, 83, 79, 65, 32, 110, 115, 32, 104, 32, 49 >> }
BadLines ==
    TooFewFields \cup MissingRData \cup UnknownType \cup InvalidIPv4 \cup InvalidIPv6
        \cup InvalidMX \cup ShortSOA
\* $ORIGIN B.
UpperOriginLine == << 36, 79, 82, 73, 71, 73, 78, 32, 66, 46 >>
\* $ORIGIN c.
OtherOriginLine == << 36, 79, 82, 73, 71, 73, 78, 32, 99, 46 >>
\* records that name their owner: 'x.b. A 1.2.3.4', 'W A 1.2.3.4', '@ MX 10 M.B.', 'c CNAME W', 'w A ::ffff:1.2.3.4', 'm MX 10 @', 'x.c. A 1.2.3.4'
NamedLines ==
    { << 120, 46, 98, 46, 32, 65, 32, 49, 46, 50, 46, 51, 46, 52 >>,
      << 120, 46, 99, 46, 32, 65, 32, 49, 46, 50, 46, 51, 46, 52 >>,
      << 109, 32, 77, 88, 32, 49, 48, 32, 64 >>,
      << 87, 32, 65, 32, 49, 46, 50, 46, 51, 46, 52 >>,
      << 64, 32, 77, 88, 32, 49, 48, 32, 77, 46, 66, 46 >>,
      << 99, 32, 67, 78, 65, 77, 69, 32, 87 >>,
      << 119, 32, 65, 32, 58, 58, 102, 102, 102, 102, 58, 49, 46, 50, 46, 51, 46, 52 >> }
\* records that name no owner: 'IN A 1.2.3.5', '60 IN A 1.2.3.5', '60 A 1.2.3.5', 'A 1.2.3.5', 'MX 10 m'
OwnerlessLines ==
    { << 73, 78, 32, 65, 32, 49, 46, 50, 46, 51, 46, 53 >>,
      << 54, 48, 32, 73, 78, 32, 65, 32, 49, 46, 50, 46, 51, 46, 53 >>,
      << 54, 48, 32, 65, 32, 49, 46, 50, 46, 51, 46, 53 >>,
      << 65, 32, 49, 46, 50, 46, 51, 46, 53 >>,
      << 77, 88, 32, 49, 48, 32, 109 >> }
\* the zone file of TestLoadZoneFile, line by line:
\*   $ORIGIN test.com.
\*   $TTL 3600
\*   
\*   @       IN  NS  ns1.test.com.
\*   @       IN  A   192.0.2.1
\*   www     IN  A   192.0.2.2
\*   mail    IN  MX  10 mail.test.com.
TestFile ==
    << << 36, 79, 82, 73, 71, 73, 78, 32, 116, 101, 115, 116, 46, 99, 111, 109, 46 >>,
       << 36, 84, 84, 76, 32, 51, 54, 48, 48 >>,
       << >>,
       << 64, 32, 32, 32, 32, 32, 32, 32, 73, 78, 32, 32, 78, 83, 32, 32, 110, 115, 49, 46, 116, 101, 115, 116, 46, 99, 111, 109, 46 >>,
       << 64, 32, 32, 32, 32, 32, 32, 32, 73, 78, 32, 32, 65, 32, 32, 32, 49, 57, 50, 46, 48, 46, 50, 46, 49 >>,
       << 119, 119, 119, 32, 32, 32, 32, 32, 73, 78, 32, 32, 65, 32, 32, 32, 49, 57, 50, 46, 48, 46, 50, 46, 50 >>,
       << 109, 97, 105, 108, 32, 32, 32, 32, 73, 78, 32, 32, 77, 88, 32, 32, 49, 48, 32, 109, 97, 105, 108, 46, 116, 101, 115, 116, 46, 99, 111, 109, 46 >> >>
RecordLines ==
    GoodLines \cup BadLines \cup NamedLines \cup OwnerlessLines \cup { ContinuationLine }
\* the sequences of at most n of the given lines
RECURSIVE LinesUpTo(_, _)
LinesUpTo(lines, n) ==
    IF n = 0 THEN { << >> }
    ELSE LET shorter == LinesUpTo(lines, n - 1)
         IN shorter \cup { f \o << l >> : f \in { x \in shorter : Len(x) = n - 1 }, l \in lines }
\* $ORIGIN b. and then well-formed and malformed records
GrammarFiles ==
    { << OriginLine >> \o rest : rest \in LinesUpTo(GoodLines \cup BadLines, MaxLines) }
\* directives, comments, blank lines, records over several lines, 'w A 1.2.3.4'
\* and 'w A' in any order: a record may come before the first $ORIGIN
StructureLines ==
    { OriginLine, UpperOriginLine, OtherOriginLine, TTLLine, BadTTLLine, CommentLine, BlankLine, OpenLine,
      CloseLine, SameLine, ContinuationLine, << 119, 32, 65, 32, 49, 46, 50, 46, 51, 46, 52 >>,
      << 119, 32, 65 >> }
StructureFiles == LinesUpTo(StructureLines, MaxLines + 1)
\* $ORIGIN b. or $ORIGIN B. and then records with and without an owner
OwnerFiles ==
    { << o >> \o rest : o \in { OriginLine, UpperOriginLine },
                        rest \in LinesUpTo(NamedLines \cup OwnerlessLines, MaxLines + 1) }
\* the file of TestLoadZoneFile less any of the lines after its first
TestFiles ==
    { SelectSeq(TestFile, LAMBDA l : l = TestFile[1] \/ l \in kept) :
          kept \in SUBSET { TestFile[i] : i \in 2..Len(TestFile) } }
\* $ORIGIN b. and then well-formed records, each with " ; c" after it or without
CommentedLines == { l \o << 32, 59, 32, 99 >> : l \in GoodLines }
CommentFiles ==
    { << OriginLine >> \o rest :
          rest \in LinesUpTo(CommentedLines \cup { << 119, 32, 65, 32, 49, 46, 50, 46, 51, 46, 52 >> }, MaxLines) }
\* $ORIGIN b. and then $TTL directives and A records of the owner w with and
\* without a TTL of their own: '$TTL 1h', '$TTL 120', 'w A 1.2.3.4',
\* 'w 60 A 1.2.3.5', 'w 7102w A 1.2.3.6', 'w 2D A 1.2.3.7'
TTLRecords ==
    { << 119, 32, 65, 32, 49, 46, 50, 46, 51, 46, 52 >>,
      << 119, 32, 54, 48, 32, 65, 32, 49, 46, 50, 46, 51, 46, 53 >>,
      << 119, 32, 55, 49, 48, 50, 119, 32, 65, 32, 49, 46, 50, 46, 51, 46, 54 >>,
      << 119, 32, 50, 68, 32, 65, 32, 49, 46, 50, 46, 51, 46, 55 >> }
TTLDirectives == { TTLLine, << 36, 84, 84, 76, 32, 49, 50, 48 >> }
TTLFiles ==
    { << OriginLine >> \o rest : rest \in LinesUpTo(TTLRecords \cup TTLDirectives, MaxLines + 1) }
LoadFiles ==
    GrammarFiles \cup StructureFiles \cup OwnerFiles \cup TestFiles \cup CommentFiles \cup TTLFiles

LoadInit ==
    /\ lfile \in LoadFiles /\ lres = NoResult /\ lpc = "start"
    /\ TTLOff
    /\ ParseOff /\ CodecOff /\ ZoneOff /\ FindOff /\ ServerOff /\ ShutdownOff

DoLoadZoneFile ==
    /\ lpc = "start"
    /\ lres' = LoadZoneFile(lfile)
    /\ lpc' = "done"
    /\ UNCHANGED << lfile, ttlVars, parseVars, codecVars, zoneVars, findVars, serverVars, shutdownVars >>

LoadNext == DoLoadZoneFile
SpecLoad == LoadInit /\ [][LoadNext]_vars

\* the lines before the first $ORIGIN directive of the file
BeforeOrigin ==
    LET IsOrigin(i) == HasPrefix(TrimSpace(lfile[i]), << 36, 79, 82, 73, 71, 73, 78 >>)
        at == SelectSeq([ i \in 1..Len(lfile) |-> i ], IsOrigin) \o << Len(lfile) + 1 >>
    IN 1..(at[1] - 1)

\* C19: LoadZoneFile fails, and returns no zone, when a record line comes before
\* any $ORIGIN directive.
C19_RecordBeforeOrigin ==
    lpc = "done" /\ (\E i \in BeforeOrigin : lfile[i] \in RecordLines)
        => lres.st = "err" /\ lres.zone = << >>


\* the record each well-formed line stands for under $ORIGIN b. and the default TTL
ExpectedRecord(line) ==
    CASE line = << 119, 32, 65, 32, 49, 46, 50, 46, 51, 46, 52 >> -> [ RR(<< 119, 46, 98 >>, TypeA, V32(3600)) EXCEPT !.Address = << 1, 2, 3, 4 >> ]
      [] line = << 64, 32, 73, 78, 32, 78, 83, 32, 110, 115, 46, 98, 46 >> -> [ RR(<< 98 >>, TypeNS, V32(3600)) EXCEPT !.Target = << 110, 115, 46, 98 >> ]
      [] line = << 109, 32, 54, 48, 32, 73, 78, 32, 77, 88, 32, 49, 48, 32, 109 >> -> [ RR(<< 109, 46, 98 >>, TypeMX, V32(60)) EXCEPT !.Priority = 10, !.Target = << 109, 46, 98 >> ]
      [] line = << 119, 32, 65, 65, 65, 65, 32, 58, 58, 49 >> -> [ RR(<< 119, 46, 98 >>, TypeAAAA, V32(3600)) EXCEPT !.Address = Rep(0, 15) \o << 1 >> ]
      [] line = << 116, 32, 84, 88, 84, 32, 34, 118, 61, 49, 34 >> -> [ RR(<< 116, 46, 98 >>, TypeTXT, V32(3600)) EXCEPT !.Text = << << 118, 61, 49 >> >> ]
      [] line = << 64, 32, 83, 79, 65, 32, 110, 115, 32, 104, 32, 49, 32, 50, 104, 32, 51, 32, 52, 32, 53 >> -> [ RR(<< 98 >>, TypeSOA, V32(3600)) EXCEPT !.SOAData =
                           << [ MName |-> << 110, 115, 46, 98 >>, RName |-> << 104, 46, 98 >>,
                                Serial |-> V32(1), Refresh |-> V32(7200), Retry |-> V32(3),
                                Expire |-> V32(4), Minimum |-> V32(5) ] >> ]
      [] line = << 99, 32, 67, 78, 65, 77, 69, 32, 64 >> -> [ RR(<< 99, 46, 98 >>, TypeCNAME, V32(3600)) EXCEPT !.Target = << 98 >> ]

\* the number of records a zone holds
RecordCount(zone) ==
    Cardinality(UNION { { << k, i >> : i \in 1..Len(zone.Records[k]) } : k \in DOMAIN zone.Records })
Holds(zone, rr) ==
    /\ recordKey(rr.Name, rr.Type) \in DOMAIN zone.Records
    /\ \E i \in 1..Len(zone.Records[recordKey(rr.Name, rr.Type)]) :
           zone.Records[recordKey(rr.Name, rr.Type)][i] = rr
\* a file of $ORIGIN b. followed by well-formed records and lines of the given bad kinds, one at least
BadAmongGood(bad) ==
    /\ Len(lfile) > 1 /\ lfile[1] = OriginLine
    /\ \A i \in 2..Len(lfile) : lfile[i] \in GoodLines \cup bad
    /\ \E i \in 2..Len(lfile) : lfile[i] \in bad
SkipsOnly(bad) ==
    lpc = "done" /\ BadAmongGood(bad) =>
        /\ lres.st = "ok" /\ lres.zone # << >>
        /\ RecordCount(lres.zone[1]) = Cardinality({ i \in 2..Len(lfile) : lfile[i] \in GoodLines })
        /\ \A i \in 2..Len(lfile) :
               lfile[i] \in GoodLines => Holds(lres.zone[1], ExpectedRecord(lfile[i]))

\* C20: a record line that does not conform to the grammar (too few fields,
\* unknown type, missing rdata, invalid IPv4 or IPv6 address, invalid MX
\* preference, SOA with fewer than seven rdata tokens) adds no record;
\* LoadZoneFile succeeds and the zone holds every well-formed record before
\* and after the bad line.
C20_BadLineSkipped == SkipsOnly(BadLines)

\* the same without the SOA lines of fewer than seven rdata tokens
C20_BadLineSkippedButSOA == SkipsOnly(BadLines \ ShortSOA)

\* the lines of the file that are $ORIGIN directives, and the name a directive
\* "$ORIGIN O." declares
OriginAt == { i \in 1..Len(lfile) : HasPrefix(TrimSpace(lfile[i]), << 36, 79, 82, 73, 71, 73, 78 >>) }
Declared(line) == SubSeq(line, 9, Len(line) - 1)
\* no line of the file opens a record that goes over several lines
NoneSkipped == \A i \in 1..Len(lfile) : ~Contains(lfile[i], 40)
\* the well-formed record lines that begin with an owner
OwnerRecords ==
    GoodLines \cup (NamedLines \ { << 119, 32, 65, 32, 58, 58, 102, 102, 102, 102, 58, 49, 46, 50, 46, 51, 46, 52 >> })
        \cup { TestFile[i] : i \in 4..Len(TestFile) }
\* the owner an owner token stands for under the origin O
Resolved(token, O) ==
    IF token = At THEN O
    ELSE IF token[Len(token)] # 46 THEN token \o Dot \o O
    ELSE SubSeq(token, 1, Len(token) - 1)
\* the type a record line names: its first type token after the owner
TypeOf(line) ==
    LET IsType(f) == StringToType(ToUpper(f)) # 0
    IN StringToType(ToUpper(SelectSeq(Tail(Fields(line)), IsType)[1]))
\* the zone's Name is O in lower case, and Lookup under the resolved owner of
\* each well-formed line returns a record of that owner and of the line's type
ResolvedUnder(O) ==
    /\ lres.zone # << >>
    /\ lres.zone[1].Name = ToLower(O)
    /\ \A i \in 1..Len(lfile) : lfile[i] \in OwnerRecords =>
           LET owner == Resolved(Fields(lfile[i])[1], O)
               found == Lookup(lres.zone[1].Records, owner, TypeOf(lfile[i]))
           IN \E j \in 1..Len(found) :
                  /\ found[j].Type = TypeOf(lfile[i])
                  /\ ToLower(found[j].Name) = ToLower(owner)

\* C21: after LoadZoneFile on a file with "$ORIGIN O." the zone's Name is O in
\* lower case without the trailing dot, and each record line is retrievable by
\* Lookup under its resolved owner: "@" is O, an owner without a trailing dot
\* is owner "." O, an owner with a trailing dot is itself less the dot.
C21_ResolvedOwner ==
    lpc = "done" /\ lres.st = "ok" /\ Cardinality(OriginAt) = 1 /\ NoneSkipped
        => \A i \in OriginAt : ResolvedUnder(Declared(lfile[i]))

\* the same for the files whose first line is the $ORIGIN directive
C21_ResolvedOwnerAfterOrigin ==
    lpc = "done" /\ lres.st = "ok" /\ OriginAt = { 1 } /\ NoneSkipped
        => ResolvedUnder(Declared(lfile[1]))

\* the file is one of TestLoadZoneFile's with its MX line, which is then the
\* only MX line: "$ORIGIN test.com." first, "mail IN MX 10 mail.test.com." later
HasTestMX ==
    /\ lpc = "done" /\ Len(lfile) > 1 /\ lfile[1] = TestFile[1]
    /\ \E i \in 2..Len(lfile) : lfile[i] = TestFile[7]
    /\ \A i \in 2..Len(lfile) :
           (\E k \in 1..Len(Fields(lfile[i])) : StringToType(ToUpper(Fields(lfile[i])[k])) = TypeMX)
               => lfile[i] = TestFile[7]
TestCom == << 116, 101, 115, 116, 46, 99, 111, 109 >>
MailTestCom == << 109, 97, 105, 108, 46 >> \o TestCom

NamedBefore(i) == { j \in 1..(i - 1) : lfile[j] \in NamedLines \cup GoodLines }
LastNamedBefore(i) == CHOOSE j \in NamedBefore(i) : \A k \in NamedBefore(i) : k <= j
\* the type a line without an owner names: its first type token
TypeOfOwnerless(line) ==
    LET IsType(f) == StringToType(ToUpper(f)) # 0
    IN StringToType(ToUpper(SelectSeq(Fields(line), IsType)[1]))
\* the zone holds the record of the ownerless line under the given owner: the
\* lines without an owner are the only ones with the address 1.2.3.5 and the
\* only MX lines with the target m
YieldsUnder(line, owner) ==
    LET found == lres.zone[1].Records IN
    /\ recordKey(owner, TypeOfOwnerless(line)) \in DOMAIN found
    /\ \E n \in 1..Len(found[recordKey(owner, TypeOfOwnerless(line))]) :
           LET rr == found[recordKey(owner, TypeOfOwnerless(line))][n] IN
           /\ ToLower(rr.Name) = ToLower(owner)
           /\ rr.Type = TypeA => rr.Address = << 1, 2, 3, 5 >>
           /\ rr.Type = TypeMX => rr.Priority = 10 /\ ToLower(rr.Target) = << 109, 46, 98 >>
\* every line of the given ones that follows a line with an owner yields a
\* record under that owner
Inherits(ownerless) ==
    lpc = "done" /\ lres.st = "ok" /\ OriginAt = { 1 } /\ NoneSkipped =>
        \A i \in 2..Len(lfile) :
            lfile[i] \in ownerless /\ NamedBefore(i) # { } =>
                /\ lres.zone # << >>
                /\ \E n \in 1..Len(lres.added) : lres.added[n] = i
                /\ YieldsUnder(TrimSpace(lfile[i]),
                               Resolved(Fields(lfile[LastNamedBefore(i)])[1], Declared(lfile[1])))

\* C23: a record line whose first field is a TTL, class or type token yields a
\* record owned by the owner of the most recent preceding record line that
\* carried an explicit owner, for every combination of the optional TTL and
\* class, a line made of only a type and its rdata included.
C23_InheritedOwner == Inherits(OwnerlessLines \cup { ContinuationLine })

\* the same for the lines of three fields or more
C23_InheritedOwnerThreeFields ==
    Inherits({ l \in OwnerlessLines \cup { ContinuationLine } : Len(Fields(l)) >= 3 })

\* four runs of digits with dots between them
DottedQuad(s) ==
    LET parts == SplitBy(s, 46) IN
    /\ Len(parts) = 4
    /\ \A k \in 1..4 : parts[k] # << >> /\ \A n \in 1..Len(parts[k]) : IsDigit(parts[k][n])
\* "::ffff:" and then a dotted quad
MappedQuad(s) ==
    /\ Len(s) > 7 /\ ToLower(SubSeq(s, 1, 7)) = << 58, 58, 102, 102, 102, 102, 58 >>
    /\ DottedQuad(SubSeq(s, 8, Len(s)))
\* a line "owner A rdata" whose rdata is no dotted quad, and a line
\* "owner AAAA rdata" whose rdata is an IPv4 or an IPv4-mapped address
RefusedAddress(line) ==
    LET f == Fields(line) IN
    /\ Len(f) = 3
    /\ \/ ToUpper(f[2]) = << 65 >> /\ ~DottedQuad(f[3])
       \/ ToUpper(f[2]) = << 65, 65, 65, 65 >> /\ (DottedQuad(f[3]) \/ MappedQuad(f[3]))
\* every A record of the zone has 4 address bytes, every AAAA record 16
AddressLengths(zone) ==
    \A key \in DOMAIN zone.Records : \A n \in 1..Len(zone.Records[key]) :
        /\ zone.Records[key][n].Type = TypeA => Len(zone.Records[key][n].Address) = 4
        /\ zone.Records[key][n].Type = TypeAAAA => Len(zone.Records[key][n].Address) = 16

\* C27: in every zone produced by LoadZoneFile each A record has an address of
\* 4 bytes and each AAAA record one of 16 bytes; an A line whose rdata is not
\* an IPv4 dotted quad and an AAAA line whose rdata is an IPv4 or IPv4-mapped
\* address add no record.
C27_AddressBytes ==
    lpc = "done" /\ lres.st = "ok" =>
        /\ lres.zone # << >> => AddressLengths(lres.zone[1])
        /\ \A i \in 1..Len(lfile) :
               RefusedAddress(lfile[i]) => \A n \in 1..Len(lres.added) : lres.added[n] # i

\* the part of it about the lengths
C27_AddressLengthsOnly ==
    lpc = "done" /\ lres.st = "ok" /\ lres.zone # << >> => AddressLengths(lres.zone[1])


\* C28: every record of a zone produced by LoadZoneFile has its owner name in
\* lower case and, for CNAME, NS and MX, its target in lower case, whatever
\* the case of the owner tokens, the targets and $ORIGIN in the file.
C28_StoredLowerCase ==
    lpc = "done" /\ lres.st = "ok" /\ lres.zone # << >> =>
        \A key \in DOMAIN lres.zone[1].Records : \A n \in 1..Len(lres.zone[1].Records[key]) :
            LET rr == lres.zone[1].Records[key][n] IN
            /\ rr.Name = ToLower(rr.Name)
            /\ rr.Type \in { TypeCNAME, TypeNS, TypeMX } => rr.Target = ToLower(rr.Target)

\* the line up to its first ';'
Uncommented(line) ==
    LET IsSemi(i) == line[i] = 59
        at == SelectSeq([ i \in 1..Len(line) |-> i ], IsSemi) \o << Len(line) + 1 >>
    IN SubSeq(line, 1, at[1] - 1)
\* the file with every line cut at its first ';'
WithoutComments == [ i \in 1..Len(lfile) |-> Uncommented(lfile[i]) ]

\* C33: a ';' starts a comment that runs to the end of the line wherever it
\* is: a record line followed by "; comment" loads exactly the record of the
\* same line without the comment, for every record type.
C33_TrailingComment ==
    lpc = "done" /\ (\E i \in 1..Len(lfile) : lfile[i] \in CommentedLines) =>
        /\ lres.st = LoadZoneFile(WithoutComments).st
        /\ lres.zone = LoadZoneFile(WithoutComments).zone

\* the same for the types whose rdata the loader reads token by token
C33_TrailingCommentByToken ==
    lpc = "done" /\ (\E i \in 1..Len(lfile) : lfile[i] \in CommentedLines)
        /\ (\A i \in 1..Len(lfile) :
                lfile[i] \in CommentedLines => TypeOf(lfile[i]) \in { TypeCNAME, TypeNS, TypeMX, TypeSOA })
        => /\ lres.st = LoadZoneFile(WithoutComments).st
           /\ lres.zone = LoadZoneFile(WithoutComments).zone

\* a record line of type MX without a comment; its target is its last field
IsMXLine(line) ==
    /\ line \in RecordLines \cup { TestFile[7] }
    /\ \E k \in 1..Len(Fields(line)) : ToUpper(Fields(line)[k]) = << 77, 88 >>
    /\ Len(Fields(line)) >= 3
MXTarget(line) == Fields(line)[Len(Fields(line))]
\* the zone holds an MX record with the given target
HoldsMXTo(zone, target) ==
    \E key \in DOMAIN zone.Records : \E n \in 1..Len(zone.Records[key]) :
        zone.Records[key][n].Type = TypeMX /\ zone.Records[key][n].Target = target

\* C34: the target of an MX record is resolved by the rules of a CNAME or NS
\* target: "@" is the origin, a target without a trailing dot gets "." and the
\* origin appended, a target with a trailing dot loses only the dot.
C34_MXTarget ==
    lpc = "done" /\ lres.st = "ok" /\ OriginAt = { 1 } /\ NoneSkipped =>
        \A i \in 2..Len(lfile) :
            IsMXLine(lfile[i]) /\ (\E n \in 1..Len(lres.added) : lres.added[n] = i) =>
                HoldsMXTo(lres.zone[1], Resolved(MXTarget(lfile[i]), Declared(lfile[1])))

\* the same for the targets other than "@"
C34_MXTargetNotAt ==
    lpc = "done" /\ lres.st = "ok" /\ OriginAt = { 1 } /\ NoneSkipped =>
        \A i \in 2..Len(lfile) :
            /\ IsMXLine(lfile[i]) /\ MXTarget(lfile[i]) # At
            /\ \E n \in 1..Len(lres.added) : lres.added[n] = i
            => HoldsMXTo(lres.zone[1], Resolved(MXTarget(lfile[i]), Declared(lfile[1])))

\* after line i the file is inside a record that goes over several lines: a
\* line containing '(' has been met and no line containing ')' since, the line
\* with the '(' included
RECURSIVE InsideAfter(_)
InsideAfter(i) ==
    IF i = 0 THEN FALSE
    ELSE IF InsideAfter(i - 1) THEN ~Contains(lfile[i], 41)
    ELSE Contains(lfile[i], 40) /\ ~Contains(lfile[i], 41)
WasAdded(i) == \E n \in 1..Len(lres.added) : lres.added[n] = i
\* the well-formed record lines of the files of directives
PlainRecords == { << 119, 32, 65, 32, 49, 46, 50, 46, 51, 46, 52 >>, ContinuationLine }
\* no record comes from a line with '(' or from a line consumed after it, and
\* every record line after the close is loaded
SkipsGroups ==
    \A i \in 1..Len(lfile) :
        /\ Contains(lfile[i], 40) => ~WasAdded(i)
        /\ lfile[i] \in PlainRecords => (WasAdded(i) <=> ~InsideAfter(i - 1))

\* C35: when the loader meets a line containing '(' it adds no record from
\* that line and consumes lines until one containing ')' is seen; every record
\* line after the line that contains the ')' is parsed and loaded normally,
\* also when the '(' and the ')' are on the same line.
C35_MultiLineSkipped ==
    lpc = "done" /\ lres.st = "ok" /\ (\E i \in 1..Len(lfile) : Contains(lfile[i], 40)) => SkipsGroups

\* the same for the files where no line holds both '(' and ')'
C35_MultiLineSkippedApart ==
    lpc = "done" /\ lres.st = "ok" /\ (\E i \in 1..Len(lfile) : Contains(lfile[i], 40))
        /\ (\A i \in 1..Len(lfile) : lfile[i] # SameLine)
        => SkipsGroups

\* the seconds a duration stands for, as a uint32, and whether they fit one
Fits(tok) ==
    Unit(tok) \in { << 109 >>, << 104 >>, << 100 >>, << 119 >> }
        => Number(LeadDigits(tok)) <= LargestFor(Unit(tok))
Seconds(tok) ==
    IF Unit(tok) \in { << >>, << 115 >> } THEN V32(Number(LeadDigits(tok)))
    ELSE Times(Number(LeadDigits(tok)), UnitSeconds(Unit(tok)))
\* the default TTL in force at line i: that of the last $TTL directive before
\* it, or 3600
DirectivesBefore(i) == { j \in 1..(i - 1) : HasPrefix(lfile[j], << 36, 84, 84, 76 >>) }
DefaultAt(i) ==
    IF DirectivesBefore(i) = { } THEN V32(3600)
    ELSE Seconds(Fields(lfile[CHOOSE j \in DirectivesBefore(i) : \A k \in DirectivesBefore(i) : k <= j])[2])
\* the record lines of the file have the TTL the claim gives them: they are
\* all of the owner w and of type A, so that the n-th record under that key is
\* the record of the n-th line added
TTLsAsWritten(lines) ==
    \A n \in 1..Len(lres.added) :
        lfile[lres.added[n]] \in lines =>
            LET tok == Fields(lfile[lres.added[n]])[2]
                rr == lres.zone[1].Records[recordKey(<< 119, 46, 98 >>, TypeA)][n]
            IN IF LeadDigits(tok) # << >> THEN Fits(tok) /\ rr.TTL = Seconds(tok)
               ELSE rr.TTL = DefaultAt(lres.added[n])
IsTTLFile ==
    /\ lpc = "done" /\ lres.st = "ok" /\ Len(lfile) > 1 /\ lfile[1] = OriginLine
    /\ \A i \in 2..Len(lfile) : lfile[i] \in TTLRecords \cup TTLDirectives
    /\ \E i \in 2..Len(lfile) : lfile[i] \in TTLRecords

\* C36: each loaded record's TTL is its explicit TTL token when the line has
\* one; otherwise it is the value of the last $TTL directive before the line,
\* or 3600 when there is none; a later $TTL does not change the TTL of the
\* records already loaded.
C36_RecordTTL == IsTTLFile => TTLsAsWritten(TTLRecords)

\* the same for the records whose own TTL fits 32 bits
C36_RecordTTLInRange ==
    IsTTLFile => TTLsAsWritten(TTLRecords \ { << 119, 32, 55, 49, 48, 50, 119, 32, 65, 32, 49, 46, 50, 46, 51, 46, 54 >> })

\* every record of the zone has an owner the zone is authoritative for
AllWithin(zone) ==
    \A key \in DOMAIN zone.Records : \A n \in 1..Len(zone.Records[key]) :
        IsAuthoritative(zone.Name, zone.Records[key][n].Name)
\* the file begins with a $ORIGIN directive and its records have an owner of
\* their own or follow one that has
OriginThenOwners ==
    /\ lpc = "done" /\ lres.st = "ok" /\ lres.zone # << >>
    /\ OriginAt # { } /\ 1 \in OriginAt
    /\ \A i \in 2..Len(lfile) :
           lfile[i] \in OwnerlessLines \cup { ContinuationLine } => NamedBefore(i) # { }

\* C38: in every zone produced by LoadZoneFile the zone's origin is the
\* declared origin in lower case and every stored record's owner equals the
\* origin or ends with "." and the origin, records with an absolute owner and
\* records after a second $ORIGIN included.
C38_OwnersWithinOrigin ==
    OriginThenOwners =>
        /\ lres.zone[1].Name = ToLower(Declared(lfile[1]))
        /\ AllWithin(lres.zone[1])

\* the same for the files with one origin and no absolute owner outside it
C38_OwnersWithinOneOrigin ==
    OriginThenOwners
        /\ (\A i \in OriginAt : ToLower(lfile[i]) = ToLower(lfile[1]))
        /\ (\A i \in 1..Len(lfile) : lfile[i] # << 120, 46, 99, 46, 32, 65, 32, 49, 46, 50, 46, 51, 46, 52 >>)
        => /\ lres.zone[1].Name = ToLower(Declared(lfile[1]))
           /\ AllWithin(lres.zone[1])

\* C40: whenever LoadZoneFile returns without an error it returns a zone, also
\* for a file with no $ORIGIN directive and no record that loads (empty, only
\* comments, only skipped lines), so that Server.LoadZone can register it.
C40_ZoneOrError == lpc = "done" /\ lres.st = "ok" => lres.zone # << >>

\* the same for the files that begin with a $ORIGIN directive or have a record
\* that loads
C40_ZoneWhenDeclared ==
    lpc = "done" /\ lres.st = "ok" /\ (1 \in OriginAt \/ lres.added # << >>) => lres.zone # << >>


(***************************************************************************)
(* Start and shutdown (cmd/dns-server/main.go): main calls Start, which     *)
(* opens a socket and starts a receive loop (serveUDP) per address family;  *)
(* the signal goroutine calls cancel and then Stop.  The steps of the       *)
(* goroutines interleave; s.udpConn4 and s.udpConn6 are read by Stop with   *)
(* no synchronisation, so Stop sees either nil or the socket.               *)
(***************************************************************************)
\* the most datagrams one receive loop dispatches
MaxDatagrams == 2

Families == { 4, 6 }
MainAt(at, f) == [ at |-> at, f |-> f ]
\* where Start goes on after the block of family f
afterFamily(f) == IF f = 4 THEN MainAt("listen", 6) ELSE MainAt("wait", 0)
\* the process lives until main returns or log.Fatalf exits
Alive == sdMain.at \notin { "returned", "exited" }
\* Stop leaving the sockets open
closeConnNot(conn) == conn
\* net.UDPConn.Close on the field as Stop reads it: nil is skipped
closeConn(conn) == IF conn = "open" THEN "closed" ELSE conn

ShutdownInit ==
    /\ sdAddrs \in SUBSET Families
    /\ sdMain = MainAt("listen", 4)
    /\ sdConn = [ f \in Families |-> "nil" ]
    /\ sdLoop = [ f \in Families |-> "none" ]
    /\ sdCtx = FALSE /\ sdSig = "waiting"
    /\ sdCount = [ f \in Families |-> 0 ]
    /\ ParseOff /\ CodecOff /\ ZoneOff /\ FindOff /\ ServerOff /\ LoaderOff

Others == << parseVars, codecVars, zoneVars, findVars, serverVars, loaderVars >>

\* Start, "if addr != "" { ... }" with an empty address
SkipFamily(f) ==
    /\ sdMain = MainAt("listen", f) /\ f \notin sdAddrs
    /\ sdMain' = afterFamily(f)
    /\ UNCHANGED << sdAddrs, sdConn, sdLoop, sdCtx, sdSig, sdCount, Others >>

\* Start, ResolveUDPAddr and ListenUDP succeed: the socket is stored in s.udpConn
Listen(f) ==
    /\ sdMain = MainAt("listen", f) /\ f \in sdAddrs
    /\ sdConn' = [ sdConn EXCEPT ![f] = "open" ]
    /\ sdMain' = MainAt("spawn", f)
    /\ UNCHANGED << sdAddrs, sdLoop, sdCtx, sdSig, sdCount, Others >>

\* Start returns an error, and main ends the process with log.Fatalf
ListenFails(f) ==
    /\ sdMain = MainAt("listen", f) /\ f \in sdAddrs
    /\ sdMain' = MainAt("exited", f)
    /\ UNCHANGED << sdAddrs, sdConn, sdLoop, sdCtx, sdSig, sdCount, Others >>

\* Start, "wg.Add(1); go func() { defer wg.Done(); s.serveUDP(ctx, conn) }()"
Spawn(f) ==
    /\ sdMain = MainAt("spawn", f)
    /\ sdLoop' = [ sdLoop EXCEPT ![f] = "top" ]
    /\ sdMain' = afterFamily(f)
    /\ UNCHANGED << sdAddrs, sdConn, sdCtx, sdSig, sdCount, Others >>

\* Start, wg.Wait() and "return nil"; main returns after it
WaitReturn ==
    /\ sdMain = MainAt("wait", 0)
    /\ \A f \in Families : sdLoop[f] \in { "none", "returned" }
    /\ sdMain' = MainAt("returned", 0)
    /\ UNCHANGED << sdAddrs, sdConn, sdLoop, sdCtx, sdSig, sdCount, Others >>

\* serveUDP, the select at the top of the loop
LoopTop(f) ==
    /\ Alive /\ sdLoop[f] = "top"
    /\ sdLoop' = [ sdLoop EXCEPT ![f] = IF sdCtx THEN "returned" ELSE "read" ]
    /\ UNCHANGED << sdAddrs, sdMain, sdConn, sdCtx, sdSig, sdCount, Others >>

\* serveUDP, ReadFromUDP returns a datagram
ReadDatagram(f) ==
    /\ Alive /\ sdLoop[f] = "read" /\ sdConn[f] = "open"
    /\ sdCount[f] < MaxDatagrams
    /\ sdLoop' = [ sdLoop EXCEPT ![f] = "got" ]
    /\ UNCHANGED << sdAddrs, sdMain, sdConn, sdCtx, sdSig, sdCount, Others >>

\* serveUDP, ReadFromUDP returns an error: the socket has been closed
ReadFails(f) ==
    /\ Alive /\ sdLoop[f] = "read" /\ sdConn[f] = "closed"
    /\ sdLoop' = [ sdLoop EXCEPT ![f] = "failed" ]
    /\ UNCHANGED << sdAddrs, sdMain, sdConn, sdCtx, sdSig, sdCount, Others >>

\* serveUDP, ReadFromUDP returns an error of the open socket
ReadError(f) ==
    /\ Alive /\ sdLoop[f] = "read" /\ sdConn[f] = "open"
    /\ sdLoop' = [ sdLoop EXCEPT ![f] = "failed" ]
    /\ UNCHANGED << sdAddrs, sdMain, sdConn, sdCtx, sdSig, sdCount, Others >>

\* serveUDP, the select under "if err != nil"
AfterReadError(f) ==
    /\ Alive /\ sdLoop[f] = "failed"
    /\ sdLoop' = [ sdLoop EXCEPT ![f] = IF sdCtx THEN "returned" ELSE "top" ]
    /\ UNCHANGED << sdAddrs, sdMain, sdConn, sdCtx, sdSig, sdCount, Others >>

\* serveUDP, the copy of the datagram and "go s.handleQuery(...)"
DispatchDatagram(f) ==
    /\ Alive /\ sdLoop[f] = "got"
    /\ sdCount' = [ sdCount EXCEPT ![f] = @ + 1 ]
    /\ sdLoop' = [ sdLoop EXCEPT ![f] = "top" ]
    /\ UNCHANGED << sdAddrs, sdMain, sdConn, sdCtx, sdSig, Others >>

\* the signal goroutine, "sig := <-sigChan": SIGINT or SIGTERM arrives
Signal ==
    /\ Alive /\ sdSig = "waiting"
    /\ sdSig' = "cancel"
    /\ UNCHANGED << sdAddrs, sdMain, sdConn, sdLoop, sdCtx, sdCount, Others >>

\* the signal goroutine, cancel()
Cancel ==
    /\ Alive /\ sdSig = "cancel"
    /\ sdCtx' = TRUE
    /\ sdSig' = "stop4"
    /\ UNCHANGED << sdAddrs, sdMain, sdConn, sdLoop, sdCount, Others >>

\* Stop, "if s.udpConn != nil { s.udpConn.Close() }" for one family
StopClose(f) ==
    /\ Alive /\ sdSig = (IF f = 4 THEN "stop4" ELSE "stop6")
    /\ sdConn' = [ sdConn EXCEPT ![f] = closeConn(@) ]
    /\ sdSig' = (IF f = 4 THEN "stop6" ELSE "done")
    /\ UNCHANGED << sdAddrs, sdMain, sdLoop, sdCtx, sdCount, Others >>

MainStep == WaitReturn \/ \E f \in Families : SkipFamily(f) \/ Listen(f) \/ Spawn(f)
LoopStep(f) == LoopTop(f) \/ ReadFails(f) \/ AfterReadError(f) \/ DispatchDatagram(f)
SignalStep == Cancel \/ \E f \in Families : StopClose(f)

ShutdownNext ==
    \/ WaitReturn
    \/ \E f \in Families : SkipFamily(f)
    \/ \E f \in Families : Listen(f)
    \/ \E f \in Families : ListenFails(f)
    \/ \E f \in Families : Spawn(f)
    \/ \E f \in Families : LoopTop(f)
    \/ \E f \in Families : ReadDatagram(f)
    \/ \E f \in Families : ReadFails(f)
    \/ \E f \in Families : ReadError(f)
    \/ \E f \in Families : AfterReadError(f)
    \/ \E f \in Families : DispatchDatagram(f)
    \/ Signal
    \/ Cancel
    \/ \E f \in Families : StopClose(f)

SpecShutdown == ShutdownInit /\ [][ShutdownNext]_vars
\* every goroutine that can take a step of its own takes one; the arrival of a
\* datagram, of a signal, an error of an open socket and the failure of a
\* listen are not steps of a goroutine. Stop reads s.udpConn4 and s.udpConn6
\* without a lock while Start writes them: it sees nil or the socket, and it
\* sees the socket of every loop that passed its first ctx.Done() before
\* cancel, the two being ordered by the mutex of the context.
SpecShutdownFair ==
    /\ ShutdownInit /\ [][ShutdownNext]_vars
    /\ WF_vars(MainStep)
    /\ \A f \in Families : WF_vars(LoopStep(f))
    /\ WF_vars(SignalStep)

\* cancel has been called and Stop has closed the sockets
ShutDown == sdSig = "done"
\* Start has returned with every receive loop returned, or the process has
\* ended on a failed listen
Stopped ==
    \/ sdMain.at = "exited"
    \/ sdMain.at = "returned" /\ \A f \in Families : sdLoop[f] \in { "none", "returned" }
\* a loop that has seen the cancellation dispatches no more
NoDispatchAfterCancel ==
    \A f \in Families : sdLoop[f] = "returned" => sdCount'[f] = sdCount[f]

\* C24: after the shutdown signal (cancel, then Stop closing the sockets) every
\* receive loop eventually returns and Start returns, wherever the loop was;
\* a loop that has observed the cancellation dispatches no further datagram.
C24_ShutdownReturns == (ShutDown ~> Stopped) /\ [][NoDispatchAfterCancel]_vars
\* Start has returned after a shutdown that found one loop in its receive,
\* after that loop had dispatched a datagram, and the other not yet started
C24_Witness ==
    /\ sdSig = "done" /\ sdMain.at = "returned"
    /\ \E f \in Families : sdCount[f] > 0 /\ sdConn[f] = "closed" /\ sdLoop[f] = "returned"

=============================================================================
